---- MODULE Spec2Model ----
(***************************************************************************)
(* Chunked synthesis pipeline of the audiobook generator: the three TTS    *)
(* providers' text_to_speech (Gemini, Qwen3, MiniMax), the bounded retry   *)
(* of _synthesize_with_retry, the merge step and the tagging step, run for *)
(* several chapters by a worker pool.                                      *)
(***************************************************************************)
EXTENDS Integers, Sequences, FiniteSets, TLC

\* ---------------------------------------------------------------- constants
MAX_RETRIES == 4
RETRY_BACKOFF_SECONDS == 2

\* Largest number of chunks split_text returns for one chapter in the model.
MaxChunks == 2

Chapters == {1, 2}
WorkerCounts == {1, 2}
Providers == {"gemini", "qwen3", "minimax"}
RetryProviders == {"qwen3", "minimax"}

\* Texts handed to text_to_speech: empty, whitespace-only, and real text.
Texts == {"", "  ", "words"}
ChunkTexts == {"words"}

\* What one backend request can do: return audio, raise, or answer without
\* an audio payload / audio URL.
BackendOutcomes == {"ok", "exception", "no_audio"}
MergeOutcomes == {"ok", "codec_error"}

VARIABLES
    provider,        \* the provider instance every chapter is synthesized with
    worker_count,    \* size of the worker pool
    text,            \* per chapter: the text handed to text_to_speech
    pc,              \* per chapter: position of its text_to_speech call
    chunks,          \* per chapter: the list split_text returned
    index,           \* per chapter: loop variable of the chunk loop (1-based)
    attempt,         \* per chapter: loop variable of the retry loop
    last_error,      \* per chapter: last_error of _synthesize_with_retry
    audio_segments,  \* per call frame: the list audio_segments
    chunk_ids,       \* per call frame: the list chunk_ids
    chunk_id,        \* per chapter: the loop's local chunk_id
    raised,          \* per chapter: the exception that left text_to_speech
    out_file,        \* per chapter: state of the chapter's output file
    events,          \* per chapter: log of backend calls, sleeps, merges, tags
    merge_args       \* per chapter: arguments of each merge_audio_segments call

vars == <<provider, worker_count, text, pc, chunks, index, attempt, last_error,
          audio_segments, chunk_ids, chunk_id, raised, out_file, events, merge_args>>

\* The markdown parser (MarkdownBookParser) and the calls made on it.
VARIABLES
    input_file,      \* config.input_file, its base name
    raw_text,        \* the document read by _read_file
    newline_mode,    \* config.newline_mode
    ppc,             \* "new" before __init__, "ready" after it
    metadata,        \* self.metadata
    body_lines,      \* self.body_lines
    book_title,      \* the last get_book_title return value
    book_author,     \* the last get_book_author return value
    chapters,        \* the last get_chapters return value
    options          \* config.remove_endnotes, config.remove_reference_numbers
                     \* and the rules of config.search_and_replace_file

parser_vars == <<input_file, raw_text, newline_mode, ppc, metadata, body_lines,
                 book_title, book_author, chapters, options>>

\* The call of a function that is called on its own: its name, its
\* arguments, whether it has returned and what it gave.
VARIABLES call

all_vars == <<vars, parser_vars, call>>

\* No such call is made.
NoCall == [fn |-> "none", done |-> FALSE]

\* The cleanup options of a default configuration: both flags off, no rules
\* file.
DefaultOptions ==
    [remove_endnotes |-> FALSE, remove_reference_numbers |-> FALSE,
     search_and_replaces |-> <<>>]

\* A return value not produced yet.
NotCalled == [called |-> FALSE, value |-> <<>>]
Returned(v) == [called |-> TRUE, value |-> v]

\* No document is being parsed.
ParserIdle ==
    /\ input_file = <<>>
    /\ raw_text = <<>>
    /\ newline_mode = "double"
    /\ ppc = "new"
    /\ metadata = <<>>
    /\ body_lines = <<>>
    /\ book_title = NotCalled
    /\ book_author = NotCalled
    /\ chapters = NotCalled
    /\ options = DefaultOptions

\* ------------------------------------------------------------------ values
NoError == [index |-> 0, attempt |-> 0, kind |-> "none"]
Error(i, a, k) == [index |-> i, attempt |-> a, kind |-> k]

\* The buffer a successful backend call returns: one fresh object per call.
Segment(c, i, a) == [chapter |-> c, index |-> i, attempt |-> a]

\* The chapter titles of the model, as sequences of characters: the first
\* one begins like a chapter number followed by the separator of the chunk id.
ChapterTitles == <<<<"2", "_", "t">>, <<"t">>>>

\* audio_tags of chapter c: idx is the chapter's position in the book.
AudioTags(c) == [idx |-> c, title |-> ChapterTitles[c]]

\* str(n) of a natural number
RECURSIVE NatToStr(_)
NatToStr(n) ==
    LET digit == <<"0", "1", "2", "3", "4", "5", "6", "7", "8", "9">>[(n % 10) + 1] IN
    IF n < 10 THEN <<digit>> ELSE Append(NatToStr(n \div 10), digit)

\* The chunk id without the chunk index.
ChunkIdTextNoIndex(tags, i, total) ==
    <<"c", "h", "a", "p", "t", "e", "r", "-">> \o NatToStr(tags.idx) \o <<"_">> \o tags.title
        \o <<"_", "c", "h", "u", "n", "k", "_", "o", "f", "_">> \o NatToStr(total)

\* f"chapter-{audio_tags.idx}_{audio_tags.title}_chunk_{index}_of_{len(chunks)}"
ChunkIdText(tags, i, total) ==
    <<"c", "h", "a", "p", "t", "e", "r", "-">> \o NatToStr(tags.idx) \o <<"_">> \o tags.title
        \o <<"_", "c", "h", "u", "n", "k", "_">> \o NatToStr(i)
        \o <<"_", "o", "f", "_">> \o NatToStr(total)

\* A chunk id: the string, and the values it was formatted from.
ChunkId(tags, i, total) ==
    [chapter |-> tags.idx, title |-> tags.title, index |-> i, total |-> total,
     text |-> ChunkIdText(tags, i, total)]

\* The local chunk_id before the loop assigned it.
NoChunkId == [chapter |-> 0, title |-> <<>>, index |-> 0, total |-> 0, text |-> <<>>]

Event(kind, i, a, ok, secs) ==
    [kind |-> kind, index |-> i, attempt |-> a, ok |-> ok, secs |-> secs]

\* str.strip() on the texts of the model.
Strip(t) == IF t \in {"", "  "} THEN "" ELSE t

\* The lists split_text can return for a non-blank text.
SplitResults ==
    UNION {[1..n -> ChunkTexts] : n \in 1..MaxChunks}

\* The lists kept on the provider instance, one pair for all calls.
SharedFrame(c) == 1

\* The call frame that holds audio_segments and chunk_ids of chapter c's
\* call: the lists are locals, created anew by every text_to_speech call.
Frame(c) == c

\* A chapter is running between its dispatch and its return or exception.
Running == {c \in Chapters : pc[c] \notin {"idle", "skipped", "returned", "raised"}}
PoolHasFreeWorker == Cardinality(Running) < worker_count

\* ------------------------------------------------------------------- Init
\* The state before any chapter is dispatched, with a pool of n workers.
InitPool(n) ==
    /\ provider \in Providers
    /\ worker_count = n
    /\ text = [c \in Chapters |-> ""]
    /\ pc = [c \in Chapters |-> "idle"]
    /\ chunks = [c \in Chapters |-> <<>>]
    /\ index = [c \in Chapters |-> 0]
    /\ attempt = [c \in Chapters |-> 0]
    /\ last_error = [c \in Chapters |-> NoError]
    /\ audio_segments = [c \in Chapters |-> <<>>]
    /\ chunk_ids = [c \in Chapters |-> <<>>]
    /\ chunk_id = [c \in Chapters |-> NoChunkId]
    /\ raised = [c \in Chapters |-> NoError]
    /\ out_file = [c \in Chapters |-> "absent"]
    /\ events = [c \in Chapters |-> <<>>]
    /\ merge_args = [c \in Chapters |-> <<>>]
    /\ ParserIdle
    /\ call = NoCall

\* A pool of two workers for the two chapters of the model: no call waits
\* for a worker, so the calls interleave in every way, one after the other
\* included.
Init == InitPool(2)

\* ---------------------------------------------------------------- actions
\* The emptiness test without strip().
IsEmptyTextNoStrip(t) == t = ""

\* if not text.strip(): ... return
IsEmptyText(t) == Strip(t) = ""

\* text_to_speech on empty or whitespace-only text: warn and return.
TextToSpeechEmpty(c) ==
    /\ pc[c] = "idle"
    /\ PoolHasFreeWorker
    /\ \E t \in Texts :
        /\ IsEmptyText(t)
        /\ text' = [text EXCEPT ![c] = t]
        /\ pc' = [pc EXCEPT ![c] = "skipped"]
    /\ UNCHANGED <<call, parser_vars, provider, worker_count, chunks, index, attempt, last_error,
                   audio_segments, chunk_ids, chunk_id, raised, out_file, events, merge_args>>

\* The loop leaves one chunk too early.
LoopPcEarly(i, n) == IF i < n THEN "try" ELSE "merge"

\* Where the chunk loop goes for loop index i of n chunks.
LoopPc(i, n) == IF i <= n THEN "try" ELSE "merge"

\* text_to_speech on real text: split, create the two lists, enter the loop.
TextToSpeechSplit(c) ==
    /\ pc[c] = "idle"
    /\ PoolHasFreeWorker
    /\ \E t \in Texts, chs \in SplitResults :
        /\ ~IsEmptyText(t)
        /\ text' = [text EXCEPT ![c] = t]
        /\ chunks' = [chunks EXCEPT ![c] = chs]
        /\ chunk_id' = [chunk_id EXCEPT ![c] = ChunkId(AudioTags(c), 1, Len(chs))]
        /\ pc' = [pc EXCEPT ![c] = LoopPc(1, Len(chs))]
    /\ audio_segments' = [audio_segments EXCEPT ![Frame(c)] = <<>>]
    /\ chunk_ids' = [chunk_ids EXCEPT ![Frame(c)] = <<>>]
    /\ index' = [index EXCEPT ![c] = 1]
    /\ attempt' = [attempt EXCEPT ![c] = 1]
    /\ last_error' = [last_error EXCEPT ![c] = NoError]
    /\ UNCHANGED <<call, parser_vars, provider, worker_count, raised, out_file, events, merge_args>>

\* The buffer is appended twice.
AppendSegmentTwice(segs, seg) == Append(Append(segs, seg), seg)

\* ------------------------------------------------- the chunk loop's bodies
\* audio_segments.append(segment); chunk_ids.append(chunk_id); next chunk.
\* The next chunk's _synthesize_with_retry call starts its own retry loop.
AppendSegment(segs, seg) == Append(segs, seg)

\* The retry state is kept from one chunk to the next.
ChunkDoneKeepsRetryState(c, seg) ==
    LET i == index[c]
        n == Len(chunks[c])
    IN  /\ audio_segments' = [audio_segments EXCEPT
                                 ![Frame(c)] = AppendSegment(@, seg)]
        /\ chunk_ids' = [chunk_ids EXCEPT ![Frame(c)] = Append(@, chunk_id[c])]
        /\ chunk_id' = [chunk_id EXCEPT
                           ![c] = IF i + 1 <= n THEN ChunkId(AudioTags(c), i + 1, n) ELSE @]
        /\ index' = [index EXCEPT ![c] = i + 1]
        /\ attempt' = attempt
        /\ last_error' = last_error
        /\ pc' = [pc EXCEPT ![c] = LoopPc(i + 1, n)]

ChunkDone(c, seg) ==
    LET i == index[c]
        n == Len(chunks[c])
    IN  /\ audio_segments' = [audio_segments EXCEPT
                                 ![Frame(c)] = AppendSegment(@, seg)]
        /\ chunk_ids' = [chunk_ids EXCEPT ![Frame(c)] = Append(@, chunk_id[c])]
        /\ chunk_id' = [chunk_id EXCEPT
                           ![c] = IF i + 1 <= n THEN ChunkId(AudioTags(c), i + 1, n) ELSE @]
        /\ index' = [index EXCEPT ![c] = i + 1]
        /\ attempt' = [attempt EXCEPT ![c] = 1]
        /\ last_error' = [last_error EXCEPT ![c] = NoError]
        /\ pc' = [pc EXCEPT ![c] = LoopPc(i + 1, n)]

\* if attempt < MAX_RETRIES: time.sleep(...)
MayRetry(a) == a < MAX_RETRIES

\* Exponential instead of linear backoff.
BackoffExponential(a) == RETRY_BACKOFF_SECONDS * 2 ^ (a - 1)

\* time.sleep(RETRY_BACKOFF_SECONDS * attempt)
BackoffSeconds(a) == RETRY_BACKOFF_SECONDS * a

\* Only the first error is kept.
RecordFirstError(old, new) == IF old = NoError THEN new ELSE old

\* last_error = exc
RecordError(old, new) == new

\* if last_error: raise last_error; raise RuntimeError(...)
ExhaustedError(last, i) ==
    IF last # NoError THEN last ELSE Error(i, 0, "runtime")

\* Qwen3 / MiniMax: one attempt of _synthesize_with_retry returns a buffer.
SynthesizeOk(c) ==
    /\ provider \in RetryProviders
    /\ pc[c] = "try"
    /\ events' = [events EXCEPT
                     ![c] = Append(@, Event("call", index[c], attempt[c], TRUE, 0))]
    /\ ChunkDone(c, Segment(c, index[c], attempt[c]))
    /\ UNCHANGED <<call, parser_vars, provider, worker_count, text, chunks, raised, out_file, merge_args>>

\* The retry loop runs one attempt more.
AttemptRangeLonger == 1..(MAX_RETRIES + 1)

\* for attempt in range(1, MAX_RETRIES + 1)
AttemptRange == 1..MAX_RETRIES

\* Where the retry loop goes after attempt a, sleep included: the next
\* attempt, or out of the loop to the raise.
AfterAttemptPc(a) == IF a + 1 \in AttemptRange THEN "try" ELSE "raised"

\* Where a failed attempt a goes: to the backoff sleep, or on in the loop.
FailedAttemptPc(a) == IF MayRetry(a) THEN "sleep" ELSE AfterAttemptPc(a)

\* A failed attempt is logged and the loop goes on with the next chunk.
SynthesizeFailSkipsChunk(c) ==
    /\ provider \in RetryProviders
    /\ pc[c] = "try"
    /\ events' = [events EXCEPT
                     ![c] = Append(@, Event("call", index[c], attempt[c], FALSE, 0))]
    /\ index' = [index EXCEPT ![c] = @ + 1]
    /\ pc' = [pc EXCEPT ![c] = LoopPc(index[c] + 1, Len(chunks[c]))]
    /\ UNCHANGED <<call, parser_vars, provider, worker_count, text, chunks, attempt, last_error,
                   audio_segments, chunk_ids, chunk_id, raised, out_file, merge_args>>

\* Retry exhaustion of one chapter cancels every chapter in flight.
SynthesizeFailAbortsAll(c) ==
    /\ provider \in RetryProviders
    /\ pc[c] = "try"
    /\ \E kind \in BackendOutcomes \ {"ok"} :
        LET i == index[c]
            a == attempt[c]
            err == RecordError(last_error[c], Error(i, a, kind))
            out == FailedAttemptPc(a) = "raised"
        IN  /\ events' = [events EXCEPT
                             ![c] = Append(@, Event("call", i, a, FALSE, 0))]
            /\ last_error' = [last_error EXCEPT ![c] = err]
            /\ pc' = [d \in Chapters |->
                         IF d = c THEN FailedAttemptPc(a)
                         ELSE IF out /\ d \in Running THEN "raised" ELSE pc[d]]
            /\ attempt' = [attempt EXCEPT
                               ![c] = IF FailedAttemptPc(a) = "try" THEN a + 1 ELSE a]
            /\ raised' = [d \in Chapters |->
                             IF out /\ (d = c \/ d \in Running)
                             THEN ExhaustedError(err, i) ELSE raised[d]]
    /\ UNCHANGED <<call, parser_vars, provider, worker_count, text, chunks, index,
                   audio_segments, chunk_ids, chunk_id, out_file, merge_args>>

\* A response without audio is fatal at once: no backoff, no further attempt.
SynthesizeFailNoAudioIsFatal(c) ==
    /\ provider \in RetryProviders
    /\ pc[c] = "try"
    /\ \E kind \in BackendOutcomes \ {"ok"} :
        LET i == index[c]
            a == attempt[c]
            err == RecordError(last_error[c], Error(i, a, kind))
            next == IF kind = "no_audio" THEN "raised" ELSE FailedAttemptPc(a)
        IN  /\ events' = [events EXCEPT
                             ![c] = Append(@, Event("call", i, a, FALSE, 0))]
            /\ last_error' = [last_error EXCEPT ![c] = err]
            /\ pc' = [pc EXCEPT ![c] = next]
            /\ attempt' = [attempt EXCEPT ![c] = IF next = "try" THEN a + 1 ELSE a]
            /\ raised' = [raised EXCEPT
                             ![c] = IF next = "raised" THEN ExhaustedError(err, i) ELSE @]
    /\ UNCHANGED <<call, parser_vars, provider, worker_count, text, chunks, index,
                   audio_segments, chunk_ids, chunk_id, out_file, merge_args>>

\* Qwen3 / MiniMax: one attempt raises (backend exception, response without
\* audio URL, failed download): caught by `except Exception`.
SynthesizeFail(c) ==
    /\ provider \in RetryProviders
    /\ pc[c] = "try"
    /\ \E kind \in BackendOutcomes \ {"ok"} :
        LET i == index[c]
            a == attempt[c]
            err == RecordError(last_error[c], Error(i, a, kind))
        IN  /\ events' = [events EXCEPT
                             ![c] = Append(@, Event("call", i, a, FALSE, 0))]
            /\ last_error' = [last_error EXCEPT ![c] = err]
            /\ pc' = [pc EXCEPT ![c] = FailedAttemptPc(a)]
            /\ attempt' = [attempt EXCEPT
                               ![c] = IF FailedAttemptPc(a) = "try" THEN a + 1 ELSE a]
            /\ raised' = [raised EXCEPT
                             ![c] = IF FailedAttemptPc(a) = "raised"
                                    THEN ExhaustedError(err, i) ELSE @]
    /\ UNCHANGED <<call, parser_vars, provider, worker_count, text, chunks, index,
                   audio_segments, chunk_ids, chunk_id, out_file, merge_args>>

\* The backoff sleep between two attempts, then the next attempt.
Backoff(c) ==
    /\ pc[c] = "sleep"
    /\ events' = [events EXCEPT
                     ![c] = Append(@, Event("sleep", index[c], attempt[c], FALSE,
                                            BackoffSeconds(attempt[c])))]
    /\ pc' = [pc EXCEPT ![c] = AfterAttemptPc(attempt[c])]
    /\ attempt' = [attempt EXCEPT
                       ![c] = IF AfterAttemptPc(@) = "try" THEN @ + 1 ELSE @]
    /\ raised' = [raised EXCEPT
                     ![c] = IF AfterAttemptPc(attempt[c]) = "raised"
                            THEN ExhaustedError(last_error[c], index[c]) ELSE @]
    /\ UNCHANGED <<call, parser_vars, provider, worker_count, text, chunks, index, last_error,
                   audio_segments, chunk_ids, chunk_id, out_file, merge_args>>

\* Gemini: generate_content returns a response with an audio payload.
GeminiOk(c) ==
    /\ provider = "gemini"
    /\ pc[c] = "try"
    /\ events' = [events EXCEPT
                     ![c] = Append(@, Event("call", index[c], attempt[c], TRUE, 0))]
    /\ ChunkDone(c, Segment(c, index[c], attempt[c]))
    /\ UNCHANGED <<call, parser_vars, provider, worker_count, text, chunks, raised, out_file, merge_args>>

\* Gemini: generate_content raises (logged and re-raised), or the response
\* holds no audio payload (_extract_pcm_bytes raises RuntimeError).
GeminiFail(c) ==
    /\ provider = "gemini"
    /\ pc[c] = "try"
    /\ \E kind \in BackendOutcomes \ {"ok"} :
        /\ events' = [events EXCEPT
                         ![c] = Append(@, Event("call", index[c], attempt[c], FALSE, 0))]
        /\ raised' = [raised EXCEPT ![c] = Error(index[c], attempt[c], kind)]
    /\ pc' = [pc EXCEPT ![c] = "raised"]
    /\ UNCHANGED <<call, parser_vars, provider, worker_count, text, chunks, index, attempt, last_error,
                   audio_segments, chunk_ids, chunk_id, out_file, merge_args>>

\* ------------------------------------------------------ merge and tagging
\* The indices of the chunk ids are 1..N in this order.
Contiguous(ids) == \A k \in 1..Len(ids) : ids[k].index = k

\* No validation of the chunk ids.
MergeAcceptsAll(ids) == TRUE

\* merge_audio_segments validates the chunk ids before it writes anything.
MergeAccepts(ids) == Contiguous(ids)

\* The exception of merge_audio_segments is swallowed.
MergePcSwallowed(ok) == "tags"

\* An exception of merge_audio_segments leaves text_to_speech; otherwise
\* set_audio_tags is the next statement.
MergePc(ok) == IF ok THEN "tags" ELSE "raised"

\* merge_audio_segments(audio_segments, output_file, ext, chunk_ids, True)
Merge(c) ==
    /\ pc[c] = "merge"
    /\ merge_args' = [merge_args EXCEPT
                         ![c] = Append(@, [segments |-> audio_segments[Frame(c)],
                                           ids |-> chunk_ids[Frame(c)]])]
    /\ \E outcome \in MergeOutcomes :
        LET ok == MergeAccepts(chunk_ids[Frame(c)]) /\ outcome = "ok"
            kind == IF MergeAccepts(chunk_ids[Frame(c)]) THEN outcome ELSE "index_gap"
        IN  /\ events' = [events EXCEPT ![c] = Append(@, Event("merge", 0, 0, ok, 0))]
            /\ out_file' = [out_file EXCEPT ![c] = IF ok THEN "merged" ELSE @]
            /\ pc' = [pc EXCEPT ![c] = MergePc(ok)]
            /\ raised' = [raised EXCEPT ![c] = IF ok THEN @ ELSE Error(0, 0, kind)]
    /\ UNCHANGED <<call, parser_vars, provider, worker_count, text, chunks, index, attempt, last_error,
                   audio_segments, chunk_ids, chunk_id>>

\* set_audio_tags(output_file, audio_tags), then text_to_speech returns.
SetAudioTags(c) ==
    /\ pc[c] = "tags"
    /\ events' = [events EXCEPT ![c] = Append(@, Event("tags", 0, 0, TRUE, 0))]
    /\ out_file' = [out_file EXCEPT ![c] = "tagged"]
    /\ pc' = [pc EXCEPT ![c] = "returned"]
    /\ UNCHANGED <<call, parser_vars, provider, worker_count, text, chunks, index, attempt, last_error,
                   audio_segments, chunk_ids, chunk_id, raised, merge_args>>

\* ------------------------------------------------------------ specification
Next ==
    \E c \in Chapters :
        \/ TextToSpeechEmpty(c)
        \/ TextToSpeechSplit(c)
        \/ SynthesizeOk(c)
        \/ SynthesizeFail(c)
        \/ Backoff(c)
        \/ GeminiOk(c)
        \/ GeminiFail(c)
        \/ Merge(c)
        \/ SetAudioTags(c)

Spec == Init /\ [][Next]_vars

\* merge_audio_segments called on its own, with any list of chunk ids: the
\* caller is chapter 1, standing at its merge call.
MaxIdLen == 3
IdLists ==
    UNION {[1..n -> {ChunkId(AudioTags(1), i, n) : i \in 1..MaxIdLen}] : n \in 0..MaxIdLen}

InitMerge ==
    /\ provider \in Providers
    /\ worker_count \in WorkerCounts
    /\ text = [c \in Chapters |-> IF c = 1 THEN "words" ELSE ""]
    /\ pc = [c \in Chapters |-> IF c = 1 THEN "merge" ELSE "idle"]
    /\ chunks = [c \in Chapters |-> <<>>]
    /\ index = [c \in Chapters |-> 0]
    /\ attempt = [c \in Chapters |-> 0]
    /\ last_error = [c \in Chapters |-> NoError]
    /\ \E ids \in IdLists :
        /\ chunk_ids = [c \in Chapters |-> IF c = 1 THEN ids ELSE <<>>]
        /\ audio_segments =
               [c \in Chapters |->
                   IF c = 1 THEN [k \in 1..Len(ids) |-> Segment(1, ids[k].index, 1)]
                   ELSE <<>>]
    /\ chunk_id = [c \in Chapters |-> NoChunkId]
    /\ raised = [c \in Chapters |-> NoError]
    /\ out_file = [c \in Chapters |-> "absent"]
    /\ events = [c \in Chapters |-> <<>>]
    /\ merge_args = [c \in Chapters |-> <<>>]
    /\ ParserIdle
    /\ call = NoCall

NextMerge == \E c \in Chapters : Merge(c) \/ SetAudioTags(c)

SpecMerge == InitMerge /\ [][NextMerge]_vars

\* ------------------------------------------------------ reading the event log
IsCall(e) == e.kind = "call"
Calls(c) == SelectSeq(events[c], IsCall)
CallsFor(c, i) == SelectSeq(events[c], LAMBDA e : e.kind = "call" /\ e.index = i)
EventsOfKind(c, k) == SelectSeq(events[c], LAMBDA e : e.kind = k)
Terminal == {"skipped", "returned", "raised"}
IsRetryProvider == provider \in RetryProviders

\* ------------------------------------------------------------------ claims

\* C1: for a chapter split into N chunks, merge_audio_segments is called at
\* most once, and then with exactly N buffers and N chunk ids standing in
\* index order 1..N (no duplicate, no gap); a call that got past the chunk
\* loop has called it once; a finished call that never called it raised.
C1_MergeGetsAllChunksInOrder ==
    \A c \in Chapters :
        LET n == Len(chunks[c]) IN
        /\ Len(merge_args[c]) <= 1
        /\ \A k \in 1..Len(merge_args[c]) :
              LET m == merge_args[c][k] IN
              /\ Len(m.segments) = n
              /\ Len(m.ids) = n
              /\ \A j \in 1..n :
                    /\ m.ids[j] = ChunkId(AudioTags(c), j, n)
                    /\ m.segments[j].chapter = c
                    /\ m.segments[j].index = j
        /\ pc[c] \in {"tags", "returned"} => Len(merge_args[c]) = 1
        /\ (pc[c] \in Terminal /\ n > 0 /\ merge_args[c] = <<>>) => pc[c] = "raised"

C1_Witness ==
    \E c \in Chapters :
        /\ pc[c] = "returned"
        /\ Len(merge_args[c]) = 1
        /\ Len(merge_args[c][1].segments) = 2
        /\ \E e \in {events[c][p] : p \in 1..Len(events[c])} : e.kind = "call" /\ ~e.ok

\* C2: Qwen3 / MiniMax: a chunk whose backend call fails k < MAX_RETRIES
\* times and then succeeds took exactly k+1 backend calls, the last one the
\* successful one, and the buffer of that call stands exactly once in the
\* chapter's buffer list, at the chunk's position.
C2_RetryThenSuccess ==
    IsRetryProvider =>
    \A c \in Chapters : \A i \in 1..Len(chunks[c]) :
        LET cf == CallsFor(c, i)
            segs == audio_segments[c]
        IN  (\E p \in 1..Len(cf) : cf[p].ok) =>
              /\ cf[Len(cf)].ok
              /\ \A p \in 1..(Len(cf) - 1) : ~cf[p].ok
              /\ \A p \in 1..Len(cf) : cf[p].attempt = p
              /\ Len(cf) - 1 < MAX_RETRIES
              /\ Len(segs) >= i
              /\ segs[i] = Segment(c, i, Len(cf))
              /\ Cardinality({q \in 1..Len(segs) : segs[q] = Segment(c, i, Len(cf))}) = 1

C2_Witness ==
    /\ IsRetryProvider
    /\ \E c \in Chapters :
        /\ Len(audio_segments[c]) = 2
        /\ audio_segments[c][1] = Segment(c, 1, 4)
        /\ audio_segments[c][2] = Segment(c, 2, 2)

\* C3: Qwen3 / MiniMax: when every backend call for a chunk fails, exactly
\* MAX_RETRIES calls are made for it, the exception of the last attempt
\* leaves text_to_speech, and no later chunk gets a backend call.
C3_ExhaustionRaisesLastError ==
    IsRetryProvider =>
    \A c \in Chapters :
        /\ \A i \in 1..Len(chunks[c]) :
              LET cf == CallsFor(c, i) IN
              /\ Len(cf) <= MAX_RETRIES
              /\ (Len(cf) = MAX_RETRIES /\ \A p \in 1..Len(cf) : ~cf[p].ok)
                     => /\ pc[c] = "raised"
                        /\ raised[c].index = i
                        /\ raised[c].attempt = MAX_RETRIES
                        /\ raised[c].kind \in BackendOutcomes \ {"ok"}
                        /\ \A p \in 1..Len(events[c]) :
                              events[c][p].kind = "call" => events[c][p].index <= i
        /\ (pc[c] = "raised" /\ raised[c].kind \in BackendOutcomes)
              => LET cf == CallsFor(c, raised[c].index) IN
                 /\ Len(cf) = MAX_RETRIES
                 /\ \A p \in 1..Len(cf) : ~cf[p].ok
                 /\ events[c][Len(events[c])] =
                        Event("call", raised[c].index, MAX_RETRIES, FALSE, 0)

C3_Witness ==
    /\ IsRetryProvider
    /\ \E c \in Chapters :
        /\ Len(chunks[c]) = 2
        /\ pc[c] = "raised"
        /\ raised[c].index = 1
        /\ raised[c].attempt = 4

\* C4: in every provider, a failed backend call never aborts the chapter
\* while attempts remain: a chapter aborted by a backend exception has made
\* MAX_RETRIES calls for the chunk that failed.
C4_EveryProviderRetries ==
    \A c \in Chapters :
        (pc[c] = "raised" /\ raised[c].kind = "exception")
            => Len(CallsFor(c, raised[c].index)) = MAX_RETRIES

\* C5: Qwen3 / MiniMax: after failed attempt a < MAX_RETRIES of a chunk the
\* worker sleeps RETRY_BACKOFF_SECONDS * a (2, 4, 6) seconds, once, and then
\* makes attempt a+1; there is no sleep before a first attempt, after a
\* successful attempt, or after the failed last attempt.
C5_LinearBackoff ==
    IsRetryProvider =>
    \A c \in Chapters :
        LET ev == events[c]
            n == Len(ev)
        IN  \A p \in 1..n :
              /\ ev[p].kind = "sleep" =>
                    /\ p > 1
                    /\ ev[p - 1] = Event("call", ev[p].index, ev[p].attempt, FALSE, 0)
                    /\ ev[p].attempt \in 1..(MAX_RETRIES - 1)
                    /\ ev[p].secs = RETRY_BACKOFF_SECONDS * ev[p].attempt
                    /\ ev[p].secs \in {2, 4, 6}
                    /\ p < n => /\ ev[p + 1].kind = "call"
                                /\ ev[p + 1].index = ev[p].index
                                /\ ev[p + 1].attempt = ev[p].attempt + 1
                    /\ p = n => pc[c] = "try" /\ attempt[c] = ev[p].attempt + 1
              /\ (ev[p].kind = "call" /\ ~ev[p].ok /\ ev[p].attempt < MAX_RETRIES) =>
                    /\ p < n => ev[p + 1].kind = "sleep"
                    /\ p = n => pc[c] = "sleep"
              /\ (ev[p].kind = "call" /\ ~ev[p].ok /\ ev[p].attempt >= MAX_RETRIES) =>
                    /\ p = n
                    /\ pc[c] = "raised"
              /\ (ev[p].kind = "call" /\ ev[p].ok) =>
                    /\ p < n => ev[p + 1].kind # "sleep"
                    /\ p = n => pc[c] # "sleep"

C5_Witness ==
    /\ IsRetryProvider
    /\ \E c \in Chapters : \E p \in 1..Len(events[c]) :
        /\ events[c][p].kind = "sleep"
        /\ events[c][p].secs = 6
        /\ p < Len(events[c])

\* C6: within one text_to_speech call the backend calls go through the
\* chunks in index order: no call for a chunk after a call for a later one,
\* and the first call for chunk i+1 only after a successful call for chunk i.
C6_ChunksInIndexOrder ==
    \A c \in Chapters :
        LET cs == Calls(c) IN
        \A q \in 1..Len(cs) :
            /\ \A p \in 1..(q - 1) : cs[p].index <= cs[q].index
            /\ cs[q].index >= 1
            /\ cs[q].index > 1 =>
                  \E p \in 1..(q - 1) : cs[p].index = cs[q].index - 1 /\ cs[p].ok

C6_Witness ==
    \E c \in Chapters :
        LET cs == Calls(c) IN
        /\ \E p \in 1..Len(cs) : cs[p].index = 1 /\ cs[p].attempt = 3
        /\ \E p \in 1..Len(cs) : cs[p].index = 2 /\ cs[p].attempt = 2

\* C7: set_audio_tags is called at most once, and only right after
\* merge_audio_segments has returned for the chapter's file; a chapter whose
\* synthesis or merge raised has no set_audio_tags call.
C7_TagsOnlyAfterMerge ==
    \A c \in Chapters :
        LET ev == events[c]
            tagged == {p \in 1..Len(ev) : ev[p].kind = "tags"}
        IN  /\ Cardinality(tagged) <= 1
            /\ \A p \in tagged : p > 1 /\ ev[p - 1] = Event("merge", 0, 0, TRUE, 0)
            /\ (pc[c] = "raised" \/ raised[c] # NoError) => tagged = {}
            /\ (\E p \in 1..Len(ev) : ev[p].kind = "merge" /\ ~ev[p].ok) => tagged = {}
            /\ out_file[c] = "tagged" <=> tagged # {}

C7_Witness ==
    /\ \E c \in Chapters : out_file[c] = "tagged" /\ pc[c] = "returned"
    /\ \E c \in Chapters : pc[c] = "raised" /\ raised[c].kind = "codec_error"

\* C8: text_to_speech on empty or whitespace-only text returns normally
\* without splitting, without a backend call, without a merge call (no
\* output file) and without a set_audio_tags call.
C8_EmptyTextIsSkipped ==
    \A c \in Chapters :
        (pc[c] # "idle" /\ Strip(text[c]) = "") =>
            /\ pc[c] = "skipped"
            /\ chunks[c] = <<>>
            /\ events[c] = <<>>
            /\ merge_args[c] = <<>>
            /\ out_file[c] = "absent"
            /\ raised[c] = NoError

C8_Witness ==
    /\ \E c \in Chapters : pc[c] = "skipped" /\ text[c] = "  "
    /\ \E c \in Chapters : pc[c] = "skipped" /\ text[c] = ""

\* The indices of the ids are not exactly 1..N: one is missing or duplicated.
MissingOrDuplicated(ids) ==
    \/ {ids[k].index : k \in 1..Len(ids)} # 1..Len(ids)
    \/ \E j, k \in 1..Len(ids) : j # k /\ ids[j].index = ids[k].index

\* C9: the merge step validates the chunk ids for index contiguity 1..N
\* before it writes: called with a missing or duplicated index it raises and
\* no output file exists for the chapter.
C9_MergeValidatesContiguity ==
    \A c \in Chapters : \A k \in 1..Len(merge_args[c]) :
        /\ MissingOrDuplicated(merge_args[c][k].ids) =>
              /\ out_file[c] = "absent"
              /\ pc[c] = "raised"
              /\ raised[c].kind = "index_gap"
              /\ EventsOfKind(c, "tags") = <<>>
        /\ out_file[c] # "absent" => Contiguous(merge_args[c][k].ids)

C9_Witness ==
    \E c \in Chapters :
        /\ Len(merge_args[c]) = 1
        /\ Len(merge_args[c][1].ids) = 2
        /\ merge_args[c][1].ids[1].index = 1
        /\ merge_args[c][1].ids[2].index = 3
        /\ pc[c] = "raised"

\* C10: with two chapters in text_to_speech at once on one provider, in
\* every interleaving each chapter's lists and its merge call hold only that
\* chapter's buffers and chunk ids, in its index order 1..N, and each
\* chapter's loop index and retry counter follow its own backend calls only.
OwnInOrder(c, segs, ids) ==
    /\ Len(segs) = Len(ids)
    /\ \A j \in 1..Len(segs) :
          /\ segs[j].chapter = c
          /\ segs[j].index = j
          /\ ids[j] = ChunkId(AudioTags(c), j, Len(chunks[c]))

C10_ChaptersAreIsolated ==
    \A c \in Chapters :
        /\ OwnInOrder(c, audio_segments[c], chunk_ids[c])
        /\ \A k \in 1..Len(merge_args[c]) :
              /\ OwnInOrder(c, merge_args[c][k].segments, merge_args[c][k].ids)
              /\ Len(merge_args[c][k].segments) = Len(chunks[c])
        /\ pc[c] \in {"try", "sleep"} =>
              /\ Len(audio_segments[c]) = index[c] - 1
              /\ attempt[c] = Len(CallsFor(c, index[c])) + (IF pc[c] = "try" THEN 1 ELSE 0)
              /\ (last_error[c] = NoError) <=> (CallsFor(c, index[c]) = <<>>)
              /\ last_error[c] # NoError =>
                    /\ last_error[c].index = index[c]
                    /\ last_error[c].attempt = Len(CallsFor(c, index[c]))

C10_Witness ==
    /\ worker_count = 2
    /\ pc[1] = "tags"
    /\ Len(merge_args[1][1].segments) = 2
    /\ \E p \in 1..Len(events[1]) : events[1][p].kind = "sleep"
    /\ pc[2] = "sleep"
    /\ index[2] = 2
    /\ attempt[2] = 2

\* C11: Qwen3 / MiniMax: a chapter never fails because another chapter
\* aborted: a chapter that raised did so on its own exhausted chunk or its
\* own merge, and a chapter that ended with none of its chunks exhausted
\* and its merge done has synthesized all its chunks, merged them and set
\* its tags, whatever happened to the other chapter.
OwnFailure(c) ==
    /\ events[c] # <<>>
    /\ LET last == events[c][Len(events[c])] IN
       \/ last = Event("call", raised[c].index, MAX_RETRIES, FALSE, 0)
       \/ last = Event("merge", 0, 0, FALSE, 0)

C11_AbortDoesNotSpread ==
    IsRetryProvider =>
    \A c \in Chapters :
        /\ pc[c] = "raised" => OwnFailure(c)
        /\ (pc[c] \in Terminal \ {"skipped"} /\ ~OwnFailure(c)) =>
              /\ pc[c] = "returned"
              /\ out_file[c] = "tagged"
              /\ Len(merge_args[c]) = 1
              /\ OwnInOrder(c, merge_args[c][1].segments, merge_args[c][1].ids)
              /\ Len(merge_args[c][1].segments) = Len(chunks[c])

C11_Witness ==
    /\ IsRetryProvider
    /\ worker_count = 2
    /\ pc[1] = "raised"
    /\ raised[1].index = 2
    /\ raised[1].attempt = MAX_RETRIES
    /\ pc[2] = "returned"
    /\ out_file[2] = "tagged"
    /\ Len(chunks[2]) = 2
    /\ \E p \in 1..Len(events[2]) : events[2][p].kind = "sleep"

\* ============================================================ the parser
\* Text is a sequence of one-character strings.
WhitespaceChars == {" ", "\t", "\n", "\r"}
IsSpace(ch) == ch \in WhitespaceChars

UpperCase == <<"A", "B", "C", "D", "E", "F", "G", "H", "I", "J", "K", "L", "M", "N", "O", "P", "Q", "R", "S", "T", "U", "V", "W", "X", "Y", "Z">>
LowerCase == <<"a", "b", "c", "d", "e", "f", "g", "h", "i", "j", "k", "l", "m", "n", "o", "p", "q", "r", "s", "t", "u", "v", "w", "x", "y", "z">>
Digits == {"0", "1", "2", "3", "4", "5", "6", "7", "8", "9"}
IsLetter(ch) == \E k \in 1..26 : ch = UpperCase[k] \/ ch = LowerCase[k]

\* str.lower()
LowerChar(ch) ==
    IF \E k \in 1..26 : ch = UpperCase[k]
    THEN LowerCase[CHOOSE k \in 1..26 : ch = UpperCase[k]]
    ELSE ch
Lower(s) == [k \in 1..Len(s) |-> LowerChar(s[k])]

\* str.strip()
RECURSIVE LStrip(_)
LStrip(s) == IF s # <<>> /\ IsSpace(Head(s)) THEN LStrip(Tail(s)) ELSE s
RECURSIVE RStrip(_)
RStrip(s) ==
    IF s # <<>> /\ IsSpace(s[Len(s)]) THEN RStrip(SubSeq(s, 1, Len(s) - 1)) ELSE s
StrStrip(s) == RStrip(LStrip(s))

\* sep.join(parts)
RECURSIVE Join(_, _)
Join(sep, parts) ==
    IF parts = <<>> THEN <<>>
    ELSE IF Len(parts) = 1 THEN parts[1]
    ELSE parts[1] \o sep \o Join(sep, Tail(parts))

\* str.splitlines(): the lines of t from position i on, cur being the line
\* read so far.
RECURSIVE SplitFrom(_, _, _)
SplitFrom(t, i, cur) ==
    IF i > Len(t) THEN (IF cur = <<>> THEN <<>> ELSE <<cur>>)
    ELSE IF t[i] = "\r" /\ i < Len(t) /\ t[i + 1] = "\n"
         THEN <<cur>> \o SplitFrom(t, i + 2, <<>>)
    ELSE IF t[i] \in {"\n", "\r"} THEN <<cur>> \o SplitFrom(t, i + 1, <<>>)
    ELSE SplitFrom(t, i + 1, Append(cur, t[i]))
SplitLines(t) == SplitFrom(t, 1, <<>>)

\* The length of the run of characters of s from position i on that lie in set.
RECURSIVE RunLen(_, _, _)
RunLen(s, i, set) ==
    IF i <= Len(s) /\ s[i] \in set THEN 1 + RunLen(s, i + 1, set) ELSE 0

\* FRONT_MATTER_DELIMITER = ^---\s*$
IsDelimiter(line) ==
    /\ Len(line) >= 3
    /\ SubSeq(line, 1, 3) = <<"-", "-", "-">>
    /\ \A k \in 4..Len(line) : IsSpace(line[k])

\* METADATA_PATTERN = ^(?P<key>[A-Za-z0-9_\- ]+):\s*(?P<value>.+)$
IsKeyChar(ch) == IsLetter(ch) \/ ch \in Digits \/ ch \in {"_", "-", " "}
MetadataMatch(line) ==
    LET klen == RunLen(line, 1, {ch \in {line[k] : k \in 1..Len(line)} : IsKeyChar(ch)})
        rest == SubSeq(line, klen + 2, Len(line))
        ws == RunLen(rest, 1, WhitespaceChars)
        matched == klen >= 1 /\ klen < Len(line) /\ line[klen + 1] = ":" /\ rest # <<>>
    IN  [matched |-> matched,
         key |-> IF matched THEN SubSeq(line, 1, klen) ELSE <<>>,
         value |-> IF ~matched THEN <<>>
                   ELSE IF ws < Len(rest) THEN SubSeq(rest, ws + 1, Len(rest))
                   ELSE SubSeq(rest, Len(rest), Len(rest))]

\* A dict: a function from keys to values.
EmptyDict == <<>>
HasKey(d, k) == k \in DOMAIN d

\* metadata[key] = value
DictSet(d, k, v) == [x \in (DOMAIN d) \cup {k} |-> IF x = k THEN v ELSE d[x]]

\* The loop of _extract_front_matter from line idx on (1-based), md being
\* the metadata read so far: the metadata and body_start.
RECURSIVE ScanFrontMatter(_, _, _)
ScanFrontMatter(lines, idx, md) ==
    IF idx > Len(lines) THEN [metadata |-> md, body_start |-> 0]
    ELSE IF IsDelimiter(lines[idx]) THEN [metadata |-> md, body_start |-> idx]
    ELSE LET m == MetadataMatch(lines[idx]) IN
         ScanFrontMatter(lines, idx + 1,
                         IF m.matched
                         THEN DictSet(md, Lower(StrStrip(m.key)), StrStrip(m.value))
                         ELSE md)

\* _extract_front_matter(text): (metadata, body_lines)
ExtractFrontMatter(t) ==
    LET lines == SplitLines(t)
        fm == IF lines # <<>> /\ IsDelimiter(lines[1])
              THEN ScanFrontMatter(lines, 2, EmptyDict)
              ELSE [metadata |-> EmptyDict, body_start |-> 0]
    IN  [metadata |-> fm.metadata,
         body_lines |-> SubSeq(lines, fm.body_start + 1, Len(lines))]

\* HEADING_PATTERN = ^\s*(#{1,6})\s+(.*)$
HeadingMatch(line) ==
    LET lead == RunLen(line, 1, WhitespaceChars)
        hashes == RunLen(line, lead + 1, {"#"})
        gap == RunLen(line, lead + hashes + 1, WhitespaceChars)
        matched == hashes >= 1 /\ hashes <= 6 /\ gap >= 1
    IN  [matched |-> matched,
         level |-> IF matched THEN hashes ELSE 0,
         text |-> IF matched THEN SubSeq(line, lead + hashes + gap + 1, Len(line))
                  ELSE <<>>]

\* ------------------------------------------------------ re.sub, rule by rule
\* The grave accent of Markdown code spans. A TLA+ string cannot hold that
\* character, so the model writes it as a tilde, which no text of the model
\* uses for anything else.
Backtick == "~"
Fence == <<Backtick, Backtick, Backtick>>

\* The first position j >= i with t[j] in set, or 0.
RECURSIVE Find(_, _, _)
Find(t, i, set) ==
    IF i > Len(t) THEN 0 ELSE IF t[i] \in set THEN i ELSE Find(t, i + 1, set)

\* pat stands in t at position i.
StartsAt(t, i, pat) ==
    /\ i >= 1
    /\ i + Len(pat) - 1 <= Len(t)
    /\ SubSeq(t, i, i + Len(pat) - 1) = pat

\* The first position j >= i where pat stands in t, or 0.
RECURSIVE FindSeq(_, _, _)
FindSeq(t, i, pat) ==
    IF i + Len(pat) - 1 > Len(t) THEN 0
    ELSE IF StartsAt(t, i, pat) THEN i ELSE FindSeq(t, i + 1, pat)

CharAt(t, i) == IF i >= 1 /\ i <= Len(t) THEN t[i] ELSE ""

\* ^ under re.MULTILINE
AtLineStart(t, i) == i = 1 \/ t[i - 1] = "\n"

Min(a, b) == IF a <= b THEN a ELSE b

\* A lazy run of characters other than line breaks followed by the delimiter
\* d, from position i on: the position of the closing d, or 0.
LazyUntil(t, i, d) ==
    LET j == FindSeq(t, i, d) IN
    IF j > 0 /\ \A k \in i..(j - 1) : t[k] # "\n" THEN j ELSE 0

\* The right double quotation mark (U+201D), which a TLA+ string cannot hold
\* either: the model writes it as a closing brace.
RightDoubleQuote == "}"

\* The characters other than letters after which a number is an endnote
\* number (the look-behind of line 187).
EndnoteMarks == {".", ",", "!", "?", ";", "\"", RightDoubleQuote, ")"}

\* Where a match of the rule's pattern starting at position i of t ends
\* (the position after its last character), or 0 when there is none.
MatchEnd(rule, t, i) ==
    CASE rule = "code_block" ->        \* fenced code block, line 216
           LET j == FindSeq(t, i + 3, Fence) IN
           IF StartsAt(t, i, Fence) /\ j > 0 THEN j + 3 ELSE 0
      [] rule = "inline_code" ->       \* inline code span, line 217
           LET j == Find(t, i + 1, {Backtick}) IN
           IF t[i] = Backtick /\ j > 0 THEN j + 1 ELSE 0
      [] rule = "image" ->             \* image, line 218
           LET j == Find(t, i + 2, {"]"})
               k == Find(t, j + 2, {")"})
           IN  IF StartsAt(t, i, <<"!", "[">>) /\ j > 0 /\ CharAt(t, j + 1) = "(" /\ k > 0
               THEN k + 1 ELSE 0
      [] rule = "link" ->              \* link, line 219
           LET j == Find(t, i + 1, {"]"})
               k == Find(t, j + 2, {")"})
           IN  IF t[i] = "[" /\ j > i + 1 /\ CharAt(t, j + 1) = "(" /\ k > 0
               THEN k + 1 ELSE 0
      [] rule = "bold" ->              \* bold, line 220
           LET d == SubSeq(t, i, Min(i + 1, Len(t)))
               j == LazyUntil(t, i + 2, d)
           IN  IF d \in {<<"*", "*">>, <<"_", "_">>} /\ j > 0 THEN j + 2 ELSE 0
      [] rule = "italic" ->            \* italic, line 221
           LET j == LazyUntil(t, i + 1, <<t[i]>>) IN
           IF t[i] \in {"*", "_"} /\ j > 0 THEN j + 1 ELSE 0
      [] rule = "blockquote" ->        \* block quote marker, line 222
           LET g == RunLen(t, i, {">"}) IN
           IF AtLineStart(t, i) /\ g >= 1
           THEN i + g + (IF IsSpace(CharAt(t, i + g)) THEN 1 ELSE 0) ELSE 0
      [] rule = "bullet" ->            \* bullet marker, line 223
           LET w == RunLen(t, i, WhitespaceChars)
               g == RunLen(t, i + w + 1, WhitespaceChars)
           IN  IF AtLineStart(t, i) /\ w <= 3 /\ CharAt(t, i + w) \in {"-", "*", "+"} /\ g >= 1
               THEN i + w + 1 + g ELSE 0
      [] rule = "numbered" ->          \* numbered-list marker, line 224
           LET w == RunLen(t, i, WhitespaceChars)
               d == RunLen(t, i + w, Digits)
               g == RunLen(t, i + w + d + 1, WhitespaceChars)
           IN  IF AtLineStart(t, i) /\ d >= 1 /\ CharAt(t, i + w + d) = "." /\ g >= 1
               THEN i + w + d + 1 + g ELSE 0
      [] rule = "heading" ->           \* heading marker, line 225
           LET w == RunLen(t, i, WhitespaceChars)
               h == Min(RunLen(t, i + w, {"#"}), 6)
           IN  IF AtLineStart(t, i) /\ h >= 1
               THEN i + w + h + RunLen(t, i + w + h, WhitespaceChars) ELSE 0
      [] rule = "crlf" ->              \* replace CR LF by LF
           IF StartsAt(t, i, <<"\r", "\n">>) THEN i + 2 ELSE 0
      [] rule = "newlines" ->          \* a run of line breaks
           IF t[i] = "\n" THEN i + RunLen(t, i, {"\n"}) ELSE 0
      [] rule = "blank_lines" ->       \* a run of two or more line breaks
           IF RunLen(t, i, {"\n"}) >= 2 THEN i + RunLen(t, i, {"\n"}) ELSE 0
      [] rule = "newline" ->           \* one line break
           IF t[i] = "\n" THEN i + 1 ELSE 0
      [] rule = "whitespace" ->        \* a run of whitespace
           IF IsSpace(t[i]) THEN i + RunLen(t, i, WhitespaceChars) ELSE 0
      [] rule = "endnote" ->           \* endnote number, line 187
           IF t[i] \in Digits /\ (IsLetter(CharAt(t, i - 1)) \/ CharAt(t, i - 1) \in EndnoteMarks)
           THEN i + RunLen(t, i, Digits) ELSE 0
      [] rule = "reference" ->         \* bracketed reference number, line 189
           LET d == RunLen(t, i + 1, Digits)
               f == RunLen(t, i + d + 2, Digits)
           IN  IF t[i] # "[" \/ d = 0 THEN 0
               ELSE IF CharAt(t, i + d + 1) = "]" THEN i + d + 2
               ELSE IF CharAt(t, i + d + 1) = "." /\ f >= 1 /\ CharAt(t, i + d + f + 2) = "]"
               THEN i + d + f + 3
               ELSE 0

\* What the match of the rule at positions i..e-1 of t is replaced with;
\* arg is the replacement string of the rules that take one.
Replacement(rule, arg, t, i, e) ==
    CASE rule \in {"inline_code", "italic"} -> SubSeq(t, i + 1, e - 2)
      [] rule = "bold" -> SubSeq(t, i + 2, e - 3)
      [] rule = "image" -> SubSeq(t, i + 2, Find(t, i + 2, {"]"}) - 1)
      [] rule = "link" -> SubSeq(t, i + 1, Find(t, i + 1, {"]"}) - 1)
      [] rule \in {"code_block", "blockquote", "bullet", "numbered", "heading"} -> <<>>
      [] rule \in {"endnote", "reference"} -> <<>>
      [] rule = "crlf" -> <<"\n">>
      [] rule \in {"newlines", "blank_lines", "newline", "whitespace"} -> arg

\* re.sub(pattern, replacement, t), scanning t from position i on.
RECURSIVE ReSubFrom(_, _, _, _)
ReSubFrom(rule, arg, t, i) ==
    IF i > Len(t) THEN <<>>
    ELSE LET e == MatchEnd(rule, t, i) IN
         IF e > 0 THEN Replacement(rule, arg, t, i, e) \o ReSubFrom(rule, arg, t, e)
         ELSE <<t[i]>> \o ReSubFrom(rule, arg, t, i + 1)
ReSub(rule, arg, t) == ReSubFrom(rule, arg, t, 1)

\* The passes of _strip_markdown, in order.
StripPasses ==
    <<"code_block", "inline_code", "image", "link", "bold", "italic",
      "blockquote", "bullet", "numbered", "heading">>

RECURSIVE ApplyPasses(_, _)
ApplyPasses(passes, t) ==
    IF passes = <<>> THEN t
    ELSE ApplyPasses(Tail(passes), ReSub(Head(passes), <<>>, t))

\* _strip_markdown(text)
StripMarkdown(t) == ApplyPasses(StripPasses, t)

NewlineModes == {"single", "double", "none"}

\* Mode double with the single line breaks replaced first.
MapNewlinesSingleBreaksFirst(mode, u, marker) ==
    CASE mode = "single" -> ReSub("newlines", marker, u)
      [] mode = "double" -> ReSub("blank_lines", marker, ReSub("newline", <<" ">>, u))
      [] mode = "none" -> ReSub("newline", <<" ">>, u)

\* The branches of _apply_newline_mode on newline_mode, for a valid mode: u
\* is the text, marker the break marker with a space on either side.
MapNewlines(mode, u, marker) ==
    CASE mode = "single" -> ReSub("newlines", marker, u)
      [] mode = "double" -> ReSub("newline", <<" ">>, ReSub("blank_lines", marker, u))
      [] mode = "none" -> ReSub("newline", <<" ">>, u)

\* _apply_newline_mode(text, break_string), for a valid mode
ApplyNewlineMode(mode, t, break_string) ==
    MapNewlines(mode, ReSub("crlf", <<>>, t), <<" ">> \o StrStrip(break_string) \o <<" ">>)

\* ------------------------------------------------- titles, author, chapters
\* Optional[str]: None, or a string.
None == [some |-> FALSE, value |-> <<>>]
Some(v) == [some |-> TRUE, value |-> v]
\* The truth value Python gives an Optional[str]: None and "" are false.
Truthy(opt) == opt.some /\ opt.value # <<>>

Str_title == <<"t", "i", "t", "l", "e">>
Str_author == <<"a", "u", "t", "h", "o", "r">>
Str_authors == <<"a", "u", "t", "h", "o", "r", "s">>
Str_creator == <<"c", "r", "e", "a", "t", "o", "r">>
Str_Unknown == <<"U", "n", "k", "n", "o", "w", "n">>
Str_Chapter == <<"C", "h", "a", "p", "t", "e", "r", " ">>

\* The last position of ch in s, or 0.
RECURSIVE LastIndexOf(_, _)
LastIndexOf(s, ch) ==
    IF s = <<>> THEN 0
    ELSE IF s[Len(s)] = ch THEN Len(s)
    ELSE LastIndexOf(SubSeq(s, 1, Len(s) - 1), ch)

\* os.path.basename(path)
Basename(path) == SubSeq(path, LastIndexOf(path, "/") + 1, Len(path))

\* os.path.splitext(name)[0]: the name up to its last dot, a dot that has
\* only dots before it being no extension separator.
SplitextRoot(name) ==
    LET d == LastIndexOf(name, ".") IN
    IF d > 0 /\ \E k \in 1..(d - 1) : name[k] # "."
    THEN SubSeq(name, 1, d - 1) ELSE name

\* len(heading_match.group(1)) == 1: the heading levels that title the book.
TitlesBookUpTo2(level) == level <= 2
TitlesBook(level) == level = 1

\* The first line of lines from position idx on that is a heading of a level
\* that titles the book: its position, or 0.
RECURSIVE FirstTitleHeading(_, _)
FirstTitleHeading(lines, idx) ==
    IF idx > Len(lines) THEN 0
    ELSE IF HeadingMatch(lines[idx]).matched /\ TitlesBook(HeadingMatch(lines[idx]).level) THEN idx
    ELSE FirstTitleHeading(lines, idx + 1)

\* get_book_title()
BookTitle(md, lines, file) ==
    IF HasKey(md, Str_title) THEN md[Str_title]
    ELSE LET h == FirstTitleHeading(lines, 1) IN
         IF h > 0 THEN StrStrip(HeadingMatch(lines[h]).text)
         ELSE SplitextRoot(Basename(file))

\* The keys get_book_author tries, in the order it tries them.
AuthorKeysReversed == <<Str_creator, Str_authors, Str_author>>
AuthorKeys == <<Str_author, Str_authors, Str_creator>>

\* get_book_author()
BookAuthor(md) ==
    IF \E k \in 1..Len(AuthorKeys) : HasKey(md, AuthorKeys[k])
    THEN md[AuthorKeys[CHOOSE k \in 1..Len(AuthorKeys) :
                /\ HasKey(md, AuthorKeys[k])
                /\ \A j \in 1..(k - 1) : ~HasKey(md, AuthorKeys[j])]]
    ELSE Str_Unknown

\* What _build_chapter_text gives: a text, or the exception that left it:
\* the ValueError of _apply_newline_mode, or the re.error of a rule.
Built(t) == [raised |-> FALSE, error |-> "none", text |-> t]
Raises(error) == [raised |-> TRUE, error |-> error, text |-> <<>>]
InvalidNewlineMode == Raises("ValueError")

\* _apply_newline_mode(text, break_string), for any mode
ApplyNewlineModeResult(mode, t, break_string) ==
    IF mode \notin NewlineModes THEN InvalidNewlineMode
    ELSE Built(ApplyNewlineMode(mode, t, break_string))

\* One rule of the search-and-replace list.
Rule(search, replace) == [search |-> search, replace |-> replace]

\* The characters that stand for themselves in a pattern and in a
\* replacement template.
IsPlainChar(ch) == IsLetter(ch) \/ ch \in Digits \/ ch \in {" ", "@", "#"}

\* re.compile(search) of the patterns of the model: a run of plain
\* characters is a pattern that matches exactly itself; a pattern with a
\* parenthesis that nothing closes is malformed, re.compile raises re.error.
Compiles(search) == \A k \in 1..Len(search) : IsPlainChar(search[k])

\* The replacement template as re.sub expands it: plain characters stand for
\* themselves, backslash-n is a line break, backslash-t a tab.
RECURSIVE ExpandTemplate(_)
ExpandTemplate(replace) ==
    IF replace = <<>> THEN <<>>
    ELSE IF Head(replace) = "\\" /\ Len(replace) >= 2 /\ replace[2] \in {"n", "t"}
    THEN <<IF replace[2] = "n" THEN "\n" ELSE "\t">> \o ExpandTemplate(SubSeq(replace, 3, Len(replace)))
    ELSE <<Head(replace)>> \o ExpandTemplate(Tail(replace))

\* re.sub(search, replace, t) for a pattern that compiles, scanning t from
\* position i on.
RECURSIVE SubFrom(_, _, _, _)
SubFrom(search, expanded, t, i) ==
    IF i > Len(t) THEN <<>>
    ELSE IF StartsAt(t, i, search) THEN expanded \o SubFrom(search, expanded, t, i + Len(search))
    ELSE <<t[i]>> \o SubFrom(search, expanded, t, i + 1)

\* A malformed rule is skipped.
ApplyRuleSkipsMalformed(rule, t) ==
    IF Compiles(rule.search)
    THEN Built(SubFrom(rule.search, ExpandTemplate(rule.replace), t, 1))
    ELSE Built(t)

\* text = re.sub(search_and_replace["search"], search_and_replace["replace"], text)
ApplyRule(rule, t) ==
    IF Compiles(rule.search)
    THEN Built(SubFrom(rule.search, ExpandTemplate(rule.replace), t, 1))
    ELSE Raises("re.error")

\* Lines 191-196: the rules in list order, the first exception leaving the
\* loop.
RECURSIVE ApplyRules(_, _)
ApplyRules(rules, b) ==
    IF b.raised \/ rules = <<>> THEN b
    ELSE ApplyRules(Tail(rules), ApplyRule(Head(rules), b.text))

\* Lines 186-189
RemoveEndnotes(opts, t) == IF opts.remove_endnotes THEN ReSub("endnote", <<>>, t) ELSE t
RemoveReferenceNumbers(opts, t) ==
    IF opts.remove_reference_numbers THEN ReSub("reference", <<>>, t) ELSE t

\* The whitespace pass is left out.
CollapseNothing(b) == b

\* Line 198: re.sub(r"\s+", " ", text).strip() on what the passes before gave.
CollapseWhitespace(b) ==
    IF b.raised THEN b ELSE Built(StrStrip(ReSub("whitespace", <<" ">>, b.text)))

\* Lines 186-199 on the text after the newline mapping.
AfterNewlineMode(mapped, opts) ==
    CollapseWhitespace(
        ApplyRules(opts.search_and_replaces,
                   Built(RemoveReferenceNumbers(opts, RemoveEndnotes(opts, mapped)))))

\* Lines 170-177: the heading and the body, each kept if it is not blank.
HeadingPart(heading) ==
    IF Truthy(heading) /\ StrStrip(heading.value) # <<>>
    THEN <<StrStrip(heading.value)>> ELSE <<>>
BodyPart(lines) ==
    IF StrStrip(Join(<<"\n">>, lines)) # <<>>
    THEN <<StrStrip(Join(<<"\n">>, lines))>> ELSE <<>>

\* Lines 180-199 on the joined parts.
CleanText(joined, break_string, mode, opts) ==
    IF joined = <<>> THEN Built(<<>>)
    ELSE IF mode \notin NewlineModes THEN InvalidNewlineMode
    ELSE AfterNewlineMode(ApplyNewlineMode(mode, StripMarkdown(joined), break_string), opts)

\* "\n\n".join(parts), line 179
JoinParts(parts) == Join(<<"\n", "\n">>, parts)

\* _build_chapter_text(lines, break_string, search_and_replaces, heading)
BuildChapterText(lines, break_string, heading, mode, opts) ==
    IF lines = <<>> /\ ~Truthy(heading) THEN Built(<<>>)
    ELSE CleanText(StrStrip(JoinParts(HeadingPart(heading) \o BodyPart(lines))),
                   break_string, mode, opts)

\* The heading levels that start a chapter.
StartsChapterUpTo3(level) == level <= 3
StartsChapter(level) == level <= 2

\* `if chapter_text:` -- whether a built text is appended as a chapter.
EmitsAnyText(t) == TRUE
Emits(t) == t # <<>>

\* current_title or f"Chapter {fallback_index}"
TitleSource(current_title, fallback_index) ==
    IF Truthy(current_title) THEN current_title.value
    ELSE Str_Chapter \o NatToStr(fallback_index)

\* One element of the returned list. The returned title is
\* sanitize_title(title_source, break_string) of the base class; start and
\* path are bookkeeping of the model: the position in body_lines of the
\* heading line that started the chapter (0: none) and the place in
\* get_chapters that appended it.
Chapter(title_source, t, start, path) ==
    [title_source |-> title_source, text |-> t, start |-> start, path |-> path]

\* The fallback counter goes on from the chapters of the call before.
ScanStartContinued ==
    [chapters |-> <<>>, current_title |-> None, current_lines |-> <<>>,
     fallback_index |-> IF chapters.called THEN Len(chapters.value.list) + 1 ELSE 1,
     start |-> 0, raised |-> FALSE, error |-> "none"]

\* The locals of get_chapters before its loop.
ScanStart ==
    [chapters |-> <<>>, current_title |-> None, current_lines |-> <<>>,
     fallback_index |-> 1, start |-> 0, raised |-> FALSE, error |-> "none"]

\* Lines 77-83 and 96-99: appends the built text b as a chapter if it is
\* not empty.
AppendChapter(st, b, path) ==
    IF b.raised THEN [st EXCEPT !.raised = TRUE, !.error = b.error]
    ELSE IF Emits(b.text)
    THEN [st EXCEPT
            !.chapters = Append(@, Chapter(TitleSource(st.current_title, st.fallback_index),
                                           b.text, st.start, path)),
            !.fallback_index = IF path = "heading" THEN @ + 1 ELSE @]
    ELSE st

\* Lines 70-83 and 89-99: closes the lines collected so far as a chapter.
CloseSegment(st, break_string, mode, opts, path) ==
    IF ~(st.current_title.some \/ st.current_lines # <<>>) THEN st
    ELSE AppendChapter(st,
           BuildChapterText(st.current_lines, break_string, st.current_title, mode, opts),
           path)

\* Lines 84-85: a heading of a chapter level begins the next segment.
BeginSegment(st, heading_text, idx) ==
    [st EXCEPT !.current_title = Some(heading_text), !.current_lines = <<>>, !.start = idx]

\* One pass of the loop body for the heading match h of lines[idx].
ScanLine(st, line, h, idx, break_string, mode, opts) ==
    IF h.matched /\ StartsChapter(h.level)
    THEN BeginSegment(CloseSegment(st, break_string, mode, opts, "heading"),
                      StrStrip(h.text), idx)
    ELSE [st EXCEPT !.current_lines = Append(@, line)]

\* The loop of get_chapters over body_lines, from position idx on.
RECURSIVE ScanBody(_, _, _, _, _, _)
ScanBody(lines, idx, st, break_string, mode, opts) ==
    IF st.raised \/ idx > Len(lines) THEN st
    ELSE ScanBody(lines, idx + 1,
                  ScanLine(st, lines[idx], HeadingMatch(lines[idx]), idx, break_string,
                           mode, opts),
                  break_string, mode, opts)

\* What a get_chapters call gives: the list, or the exception that left it.
ChapterList(break_string, list) ==
    [break_string |-> break_string, raised |-> FALSE, error |-> "none", list |-> list]
ChaptersRaised(break_string, error) ==
    [break_string |-> break_string, raised |-> TRUE, error |-> error, list |-> <<>>]

\* Lines 108-111: the whole body as one chapter under the book title.
WholeBodyChapter(title, whole, break_string) ==
    IF whole.raised THEN ChaptersRaised(break_string, whole.error)
    ELSE IF Emits(whole.text)
    THEN ChapterList(break_string,
           <<Chapter(IF title # <<>> THEN title ELSE Str_Chapter \o <<"1">>,
                     whole.text, 0, "fallback")>>)
    ELSE ChapterList(break_string, <<>>)

\* Lines 101-107
WholeBody(title, lines, break_string, mode, opts) ==
    WholeBodyChapter(title, BuildChapterText(lines, break_string, Some(title), mode, opts),
                     break_string)

\* Lines 89-113, st being the locals after the loop.
AfterScan(st, md, lines, file, break_string, mode, opts) ==
    IF st.raised THEN ChaptersRaised(break_string, st.error)
    ELSE IF st.chapters = <<>> /\ lines # <<>>
    THEN WholeBody(BookTitle(md, lines, file), lines, break_string, mode, opts)
    ELSE ChapterList(break_string, st.chapters)

\* get_chapters(break_string)
GetChaptersResult(md, lines, file, break_string, mode, opts) ==
    AfterScan(CloseSegment(ScanBody(lines, 1, ScanStart, break_string, mode, opts),
                           break_string, mode, opts, "end"),
              md, lines, file, break_string, mode, opts)

\* ------------------------------------------------------ the parser's steps
\* The break string main hands to get_chapters.
BreakStrings == {<<" ", "@", "B", "R", "K", "#">>}

\* __init__ (lines 18-20): reads the document and splits off the front
\* matter. No branch of _extract_front_matter raises.
Construct ==
    /\ ppc = "new"
    /\ LET fm == ExtractFrontMatter(raw_text) IN
       /\ metadata' = fm.metadata
       /\ body_lines' = fm.body_lines
    /\ ppc' = "ready"
    /\ UNCHANGED <<vars, call, options, input_file, raw_text, newline_mode, book_title, book_author, chapters>>

GetBookTitle ==
    /\ ppc = "ready"
    /\ book_title' = Returned(BookTitle(metadata, body_lines, input_file))
    /\ UNCHANGED <<vars, call, options, input_file, raw_text, newline_mode, ppc, metadata, body_lines,
                   book_author, chapters>>

GetBookAuthor ==
    /\ ppc = "ready"
    /\ book_author' = Returned(BookAuthor(metadata))
    /\ UNCHANGED <<vars, call, options, input_file, raw_text, newline_mode, ppc, metadata, body_lines,
                   book_title, chapters>>

GetChapters ==
    /\ ppc = "ready"
    /\ \E break_string \in BreakStrings :
         chapters' = Returned(GetChaptersResult(metadata, body_lines, input_file,
                                                break_string, newline_mode, options))
    /\ UNCHANGED <<vars, call, options, input_file, raw_text, newline_mode, ppc, metadata, body_lines,
                   book_title, book_author>>

NextParser ==
    \/ Construct
    \/ GetBookTitle
    \/ GetBookAuthor
    \/ GetChapters

\* The synthesis pipeline before any chapter is dispatched.
PipelineIdle ==
    /\ provider = "qwen3"
    /\ worker_count = 1
    /\ text = [c \in Chapters |-> ""]
    /\ pc = [c \in Chapters |-> "idle"]
    /\ chunks = [c \in Chapters |-> <<>>]
    /\ index = [c \in Chapters |-> 0]
    /\ attempt = [c \in Chapters |-> 0]
    /\ last_error = [c \in Chapters |-> NoError]
    /\ audio_segments = [c \in Chapters |-> <<>>]
    /\ chunk_ids = [c \in Chapters |-> <<>>]
    /\ chunk_id = [c \in Chapters |-> NoChunkId]
    /\ raised = [c \in Chapters |-> NoError]
    /\ out_file = [c \in Chapters |-> "absent"]
    /\ events = [c \in Chapters |-> <<>>]
    /\ merge_args = [c \in Chapters |-> <<>>]
    /\ call = NoCall

\* A parser object not constructed yet, for a document and a configuration.
ParserObject(file, doc, mode, opts) ==
    /\ input_file = file
    /\ raw_text = doc
    /\ newline_mode = mode
    /\ options = opts
    /\ ppc = "new"
    /\ metadata = EmptyDict
    /\ body_lines = <<>>
    /\ book_title = NotCalled
    /\ book_author = NotCalled
    /\ chapters = NotCalled

\* The same, with the default cleanup options.
ParserNew(file, doc, mode) == ParserObject(file, doc, mode, DefaultOptions)

\* All sequences of at most n elements of set.
SeqsUpTo(set, n) == UNION {[1..k -> set] : k \in 0..n}

\* Input files: a plain one, and one with a directory and two dots.
InputFiles == {<<"b", ".", "m", "d">>,
     <<"d", "/", "a", ".", "b", ".", "m", "d">>}

\* --- documents with a rich front matter
MaxMetaLines == 3
MetaLines ==
    {<<"t", "i", "t", "l", "e", ":", " ", "T">>,
     <<"T", "i", "t", "l", "e", ":", " ", "U">>,
     <<"a", "u", "t", "h", "o", "r", ":", " ", "A">>,
     <<"a", "u", "t", "h", "o", "r", "s", ":", " ", "B">>,
     <<"c", "r", "e", "a", "t", "o", "r", ":", " ", "C">>,
     <<"x">>}
MetaBodies ==
    {<<>>,
     <<<<"#", "#", " ", "S">>>>,
     <<<<"#", "#", " ", "S">>, <<"#", " ", "H">>, <<"x">>>>}
Delimiter == <<"-", "-", "-">>

\* Documents that begin with a delimiter line, with and without a closing
\* one, and documents without front matter.
MetaDocs ==
    {Join(<<"\n">>, <<Delimiter>> \o fm \o closing \o body) :
        fm \in SeqsUpTo(MetaLines, MaxMetaLines),
        closing \in {<<>>, <<Delimiter>>},
        body \in MetaBodies}
    \cup {Join(<<"\n">>, body) : body \in MetaBodies}

InitMeta ==
    /\ PipelineIdle
    /\ \E file \in InputFiles, doc \in MetaDocs : ParserNew(file, doc, "double")

SpecMeta == InitMeta /\ [][NextParser]_all_vars

\* --- documents with a rich body
MaxBodyLines == 3
BodyLines ==
    {<<"x">>,
     <<>>,
     <<"#", " ", "A">>,
     <<"#", " ">>,
     <<"#", "#", " ", "B">>,
     <<"#", "#", "#", " ", "C">>,
     <<"~", "~", "~", "x", "~", "~", "~">>,
     <<"#", " ", "~", "~">>}
FrontMatters ==
    {<<>>,
     <<<<"-", "-", "-">>, <<"t", "i", "t", "l", "e", ":", " ", "T">>, <<"-", "-", "-">>>>}
ConfigNewlineModes == NewlineModes \cup {"bogus"}

BodyDocs ==
    {Join(<<"\n">>, fm \o body) :
        fm \in FrontMatters, body \in SeqsUpTo(BodyLines, MaxBodyLines)}

InitChapters ==
    /\ PipelineIdle
    /\ \E doc \in BodyDocs, mode \in ConfigNewlineModes :
         ParserNew(<<"b", ".", "m", "d">>, doc, mode)

SpecChapters == InitChapters /\ [][NextParser]_all_vars

\* ------------------------------------------------------------ claims C12..
\* The lines of the document's front matter, when it opens with a delimiter
\* line: the positions after line 1 and before the closing delimiter line,
\* or to the end of the document if there is none.
RECURSIVE ClosingDelimiter(_, _)
ClosingDelimiter(lines, idx) ==
    IF idx > Len(lines) THEN 0
    ELSE IF IsDelimiter(lines[idx]) THEN idx
    ELSE ClosingDelimiter(lines, idx + 1)

OpensFrontMatter(lines) == lines # <<>> /\ IsDelimiter(lines[1])
FrontMatterPositions(lines) ==
    IF ~OpensFrontMatter(lines) THEN {}
    ELSE IF ClosingDelimiter(lines, 2) > 0 THEN 2..(ClosingDelimiter(lines, 2) - 1)
    ELSE 2..Len(lines)

\* The line is a `key: value` line whose key, trimmed and lower-cased, is k.
IsEntryFor(line, k) ==
    MetadataMatch(line).matched /\ Lower(StrStrip(MetadataMatch(line).key)) = k
EntryValue(line) == StrStrip(MetadataMatch(line).value)

\* C12: when a metadata key (compared case-insensitively) appears on several
\* `key: value` lines of the front matter, the value stored for it is the
\* one of its first occurrence; later occurrences do not overwrite it.
C12_FirstOccurrenceWins ==
    ppc = "ready" =>
        \A k \in DOMAIN metadata :
            \E i \in FrontMatterPositions(SplitLines(raw_text)) :
                /\ IsEntryFor(SplitLines(raw_text)[i], k)
                /\ \A j \in 2..(i - 1) : ~IsEntryFor(SplitLines(raw_text)[j], k)
                /\ metadata[k] = EntryValue(SplitLines(raw_text)[i])

\* The document opens a front matter and never closes it.
Unclosed(lines) == OpensFrontMatter(lines) /\ ClosingDelimiter(lines, 2) = 0

\* C13: a document whose first line is a front-matter delimiter but that has
\* no later closing delimiter line is rejected when the parser is
\* constructed: construction does not complete, no metadata and no body are
\* produced and no chapter list is ever returned for it.
C13_UnclosedFrontMatterIsRejected ==
    Unclosed(SplitLines(raw_text)) =>
        /\ ppc # "ready"
        /\ metadata = EmptyDict
        /\ body_lines = <<>>
        /\ ~chapters.called

\* Line i of the body is a heading of level 1.
IsLevel1(lines, i) == HeadingMatch(lines[i]).matched /\ HeadingMatch(lines[i]).level = 1
Str_md == <<".", "m", "d">>

\* C19: get_book_title returns the metadata `title` whenever that key is
\* present; otherwise the trimmed text of the first body line that is a
\* level-1 heading, level-2 and deeper headings being skipped; otherwise the
\* input file's base name without its extension.
C19_TitlePrecedence ==
    book_title.called =>
        /\ HasKey(metadata, Str_title) => book_title.value = metadata[Str_title]
        /\ ~HasKey(metadata, Str_title) =>
             \A i \in 1..Len(body_lines) :
                 (IsLevel1(body_lines, i) /\ \A j \in 1..(i - 1) : ~IsLevel1(body_lines, j))
                 => book_title.value = StrStrip(HeadingMatch(body_lines[i]).text)
        /\ (~HasKey(metadata, Str_title) /\ \A i \in 1..Len(body_lines) : ~IsLevel1(body_lines, i))
             => /\ "/" \notin {book_title.value[k] : k \in 1..Len(book_title.value)}
                /\ \E n \in 0..Len(input_file) :
                     /\ n > 0 => input_file[n] = "/"
                     /\ input_file = SubSeq(input_file, 1, n) \o book_title.value \o Str_md

\* C19 witness: no metadata title, a level-2 heading stands before the first
\* level-1 heading, and the title returned is the level-1 heading's text.
C19_Witness ==
    /\ book_title.called
    /\ ~HasKey(metadata, Str_title)
    /\ HasKey(metadata, Str_author)
    /\ \E i \in 2..Len(body_lines) :
         /\ IsLevel1(body_lines, i)
         /\ HeadingMatch(body_lines[1]).matched /\ HeadingMatch(body_lines[1]).level = 2
         /\ book_title.value = StrStrip(HeadingMatch(body_lines[i]).text)
         /\ book_title.value # <<>>

\* C20: get_book_author returns the value of the first metadata key present
\* among author, authors, creator, tried in that order, for every
\* combination of present keys, and the literal Unknown when none is present.
C20_AuthorPrecedence ==
    book_author.called =>
        /\ HasKey(metadata, Str_author) => book_author.value = metadata[Str_author]
        /\ (~HasKey(metadata, Str_author) /\ HasKey(metadata, Str_authors))
             => book_author.value = metadata[Str_authors]
        /\ (~HasKey(metadata, Str_author) /\ ~HasKey(metadata, Str_authors)
                /\ HasKey(metadata, Str_creator))
             => book_author.value = metadata[Str_creator]
        /\ (~HasKey(metadata, Str_author) /\ ~HasKey(metadata, Str_authors)
                /\ ~HasKey(metadata, Str_creator))
             => book_author.value = Str_Unknown

\* C20 witness: all three keys are present with three different values, the
\* front matter listing creator first, and the author's value is returned.
C20_Witness ==
    /\ book_author.called
    /\ HasKey(metadata, Str_author) /\ HasKey(metadata, Str_authors)
    /\ HasKey(metadata, Str_creator)
    /\ metadata[Str_author] # metadata[Str_authors]
    /\ metadata[Str_author] # metadata[Str_creator]
    /\ IsEntryFor(SplitLines(raw_text)[2], Str_creator)
    /\ book_author.value = metadata[Str_author]

\* The positions of body_lines that are headings of level 1 or 2.
ChapterHeadings ==
    {i \in 1..Len(body_lines) :
        HeadingMatch(body_lines[i]).matched /\ HeadingMatch(body_lines[i]).level \in {1, 2}}

\* The segment that starts at position s (0: the document start): it ends
\* before the next heading of level 1 or 2, or with the document.
SegmentEnd(s) ==
    IF \E h \in ChapterHeadings : h > s
    THEN (CHOOSE h \in ChapterHeadings : h > s /\ \A g \in ChapterHeadings : g > s => h <= g) - 1
    ELSE Len(body_lines)
SegmentHeading(s) ==
    IF s = 0 THEN None ELSE Some(StrStrip(HeadingMatch(body_lines[s]).text))
SegmentText(s) ==
    BuildChapterText(SubSeq(body_lines, s + 1, SegmentEnd(s)), chapters.value.break_string,
                     SegmentHeading(s), newline_mode, options).text

\* get_chapters returned a list that its scan of the body filled.
ScanReturned ==
    /\ chapters.called
    /\ ~chapters.value.raised
    /\ \A k \in 1..Len(chapters.value.list) : chapters.value.list[k].path # "fallback"

\* C14: get_chapters starts a new chapter at exactly the body lines that are
\* headings of level 1 or 2 (headings of level 3 to 6 stay in the body of
\* the current chapter), closes the lines accumulated so far as the previous
\* chapter before starting the new one, and returns the chapters in the
\* order of their headings. A segment whose text is empty gives no chapter.
C14_ChaptersStartAtHeadings ==
    ScanReturned =>
        LET list == chapters.value.list IN
        /\ \A k \in 1..Len(list) : list[k].start \in ChapterHeadings \cup {0}
        /\ \A k \in 1..(Len(list) - 1) : list[k].start < list[k + 1].start
        /\ {<<list[k].start, list[k].text>> : k \in 1..Len(list)}
             = {<<h, SegmentText(h)>> : h \in {g \in ChapterHeadings \cup {0} : SegmentText(g) # <<>>}}

\* C14 witness: two chapters started by headings, a level-3 heading line
\* between them that started none.
C14_Witness ==
    /\ ScanReturned
    /\ Len(chapters.value.list) = 2
    /\ chapters.value.list[1].start > 0
    /\ \E i \in 1..Len(body_lines) :
         /\ HeadingMatch(body_lines[i]).matched /\ HeadingMatch(body_lines[i]).level = 3
         /\ chapters.value.list[1].start < i
         /\ i < chapters.value.list[2].start

\* The chapter got no title from a heading: it is the text before the first
\* heading, or its heading line has no text.
FallbackTitled(ch) == ch.path # "fallback" /\ ~Truthy(SegmentHeading(ch.start))

\* C15: the number n of a fallback title `Chapter {n}` counts the
\* fallback-titled chapters only, from 1 on, no matter how many
\* heading-titled chapters were emitted before.
C15_FallbackCounterCountsFallbacks ==
    ScanReturned =>
        \A k \in 1..Len(chapters.value.list) :
            FallbackTitled(chapters.value.list[k]) =>
                chapters.value.list[k].title_source
                  = Str_Chapter \o NatToStr(Cardinality(
                        {j \in 1..k : FallbackTitled(chapters.value.list[j])}))

\* get_chapters returned a list (it did not raise).
ListReturned == chapters.called /\ ~chapters.value.raised

\* The body's own text after the cleanup of _build_chapter_text.
BodyText ==
    BuildChapterText(body_lines, chapters.value.break_string, None, newline_mode,
                     options).text

\* C16: for a body with no heading of level 1 or 2 and a non-empty text,
\* get_chapters returns exactly one chapter, titled with the book title that
\* get_book_title returns and not with a `Chapter {n}` fallback title.
C16_HeadinglessBodyGetsBookTitle ==
    (ListReturned /\ ChapterHeadings = {} /\ BodyText # <<>>) =>
        /\ Len(chapters.value.list) = 1
        /\ chapters.value.list[1].title_source = BookTitle(metadata, body_lines, input_file)
        /\ chapters.value.list[1].title_source # Str_Chapter \o <<"1">>

\* C17: whenever the body has a non-whitespace character (and the newline
\* mode is valid), get_chapters returns at least one chapter.
C17_NonBlankBodyGivesAChapter ==
    (ListReturned /\ \E i \in 1..Len(body_lines) : StrStrip(body_lines[i]) # <<>>)
        => chapters.value.list # <<>>

\* The whole body as _build_chapter_text assembles it under the book title.
WholeBodyText ==
    BuildChapterText(body_lines, chapters.value.break_string,
                     Some(BookTitle(metadata, body_lines, input_file)), newline_mode,
                     options).text

\* C18: every returned pair has a non-empty text and had a non-empty title
\* before sanitization; a segment whose assembled text is empty gives no
\* chapter even if a heading started it, at a new heading, at the end of
\* the document and in the whole-body fallback alike.
C18_NoEmptyChapter ==
    ListReturned =>
        LET list == chapters.value.list IN
        /\ \A k \in 1..Len(list) : list[k].text # <<>> /\ list[k].title_source # <<>>
        /\ \A k \in 1..Len(list) :
             /\ list[k].path = "heading" => SegmentEnd(list[k].start) < Len(body_lines)
             /\ list[k].path = "end" => SegmentEnd(list[k].start) = Len(body_lines)
             /\ list[k].path # "fallback" => SegmentText(list[k].start) = list[k].text
             /\ list[k].path = "fallback" => Len(list) = 1 /\ WholeBodyText = list[k].text
        /\ \A h \in ChapterHeadings \cup {0} :
             SegmentText(h) = <<>> => \A k \in 1..Len(list) :
                                          list[k].path = "fallback" \/ list[k].start # h
        /\ WholeBodyText = <<>> => \A k \in 1..Len(list) : list[k].path # "fallback"

\* C18 witness: a chapter appended at a new heading and one appended at the
\* end of the document, and between them a heading whose segment has an
\* empty text and gave no chapter.
C18_Witness ==
    /\ ListReturned
    /\ Len(chapters.value.list) = 2
    /\ chapters.value.list[1].path = "heading"
    /\ chapters.value.list[2].path = "end"
    /\ \E h \in ChapterHeadings :
         /\ chapters.value.list[1].start < h
         /\ h < chapters.value.list[2].start
         /\ SegmentText(h) = <<>>

\* ---------------------------------------------- _apply_newline_mode alone
\* Texts of at most MaxTextLen characters over a letter, a space, a line
\* feed and a carriage return.
MaxTextLen == 5
NewlineTexts == SeqsUpTo({"a", " ", "\n", "\r"}, MaxTextLen)

\* The pipeline and the parser at rest, and one function about to be called.
InitCall(c) ==
    /\ provider = "qwen3"
    /\ worker_count = 1
    /\ text = [d \in Chapters |-> ""]
    /\ pc = [d \in Chapters |-> "idle"]
    /\ chunks = [d \in Chapters |-> <<>>]
    /\ index = [d \in Chapters |-> 0]
    /\ attempt = [d \in Chapters |-> 0]
    /\ last_error = [d \in Chapters |-> NoError]
    /\ audio_segments = [d \in Chapters |-> <<>>]
    /\ chunk_ids = [d \in Chapters |-> <<>>]
    /\ chunk_id = [d \in Chapters |-> NoChunkId]
    /\ raised = [d \in Chapters |-> NoError]
    /\ out_file = [d \in Chapters |-> "absent"]
    /\ events = [d \in Chapters |-> <<>>]
    /\ merge_args = [d \in Chapters |-> <<>>]
    /\ ParserIdle
    /\ call = c

InitNewline ==
    \E mode \in ConfigNewlineModes, t \in NewlineTexts, break_string \in BreakStrings :
        InitCall([fn |-> "_apply_newline_mode", done |-> FALSE, mode |-> mode,
                  text |-> t, break_string |-> break_string])

\* _apply_newline_mode(text, break_string) under the configured newline mode.
ApplyNewlineModeCall ==
    /\ call.fn = "_apply_newline_mode"
    /\ ~call.done
    /\ call' = [fn |-> call.fn, done |-> TRUE, mode |-> call.mode, text |-> call.text,
                break_string |-> call.break_string,
                result |-> ApplyNewlineModeResult(call.mode, call.text, call.break_string)]
    /\ UNCHANGED <<vars, parser_vars>>

NextNewline == ApplyNewlineModeCall

SpecNewline == InitNewline /\ [][NextNewline]_all_vars

\* The text without the carriage return of every CR LF pair.
RECURSIVE WithoutCR(_)
WithoutCR(t) ==
    IF t = <<>> THEN <<>>
    ELSE IF Len(t) >= 2 /\ t[1] = "\r" /\ t[2] = "\n" THEN WithoutCR(Tail(t))
    ELSE <<Head(t)>> \o WithoutCR(Tail(t))

\* The break marker: the trimmed break string with a space on either side.
Marker(break_string) == <<" ">> \o StrStrip(break_string) \o <<" ">>

\* What a maximal run of n line breaks becomes in a mode.
RunImage(mode, n, marker) ==
    CASE mode = "single" -> marker
      [] mode = "double" -> IF n >= 2 THEN marker ELSE <<" ">>
      [] mode = "none" -> [k \in 1..n |-> " "]

\* The text u with every maximal run of line breaks replaced by its image.
RECURSIVE RunsMapped(_, _, _)
RunsMapped(mode, u, marker) ==
    IF u = <<>> THEN <<>>
    ELSE IF Head(u) # "\n" THEN <<Head(u)>> \o RunsMapped(mode, Tail(u), marker)
    ELSE RunImage(mode, RunLen(u, 1, {"\n"}), marker)
           \o RunsMapped(mode, SubSeq(u, RunLen(u, 1, {"\n"}) + 1, Len(u)), marker)

\* The number of places where pat stands in t.
Occurrences(t, pat) == Cardinality({i \in 1..Len(t) : StartsAt(t, i, pat)})

C22_InvalidModeAlwaysFails ==
    (chapters.called /\ newline_mode \notin NewlineModes) =>
        /\ chapters.value.raised
        /\ chapters.value.list = <<>>

\* ------------------------------------------- get_chapters with cleanup options
\* The lines of the documents: text, a heading, a heading without text, an
\* endnote number and a reference number, stray whitespace, a blank line.
MaxCleanLines == 2
CleanLines ==
    {<<"x">>,
     <<"#", " ", "A">>,
     <<"#", " ">>,
     <<"a", "1", " ", "[", "2", "]", " ", "x">>,
     <<"\t", "x", " ", " ", "x", " ">>,
     <<>>}

\* The example document of the specification.
ExampleDoc ==
    Join(<<"\n">>,
         <<<<"-", "-", "-">>,
           <<"t", "i", "t", "l", "e", ":", " ", "T">>,
           <<"-", "-", "-">>,
           <<"#", " ", "P", "r", "o", "l", "o", "g", "u", "e">>,
           <<"H", "e", "l", "l", "o", ".">>,
           <<>>,
           <<"#", "#", " ", "O", "n", "e">>,
           <<"W", "o", "r", "l", "d", " ", "*", "*", "b", "o", "l", "d", "*", "*", ".">>>>)

CleanDocs == {Join(<<"\n">>, body) : body \in SeqsUpTo(CleanLines, MaxCleanLines)} \cup {ExampleDoc}

\* The rules of the search-and-replace file: a plain replacement, one that
\* inserts two spaces, one that inserts a line break, and a pattern with an
\* unclosed parenthesis.
MaxRules == 1
Rules ==
    {Rule(<<"x">>, <<"y">>),
     Rule(<<"x">>, <<" ", " ">>),
     Rule(<<"x">>, <<"\\", "n">>),
     Rule(<<"(">>, <<>>)}

CleanOptions ==
    {[remove_endnotes |-> e, remove_reference_numbers |-> r, search_and_replaces |-> rules] :
        e \in BOOLEAN, r \in BOOLEAN, rules \in SeqsUpTo(Rules, MaxRules)}

InitCleanup ==
    /\ PipelineIdle
    /\ \E doc \in CleanDocs, mode \in ConfigNewlineModes, opts \in CleanOptions :
         ParserObject(<<"b", ".", "m", "d">>, doc, mode, opts)

\* A further get_chapters call on a parser that has answered one: call keeps
\* what the call before it returned.
GetChaptersAgain ==
    /\ ppc = "ready"
    /\ chapters.called
    /\ call = NoCall
    /\ \E break_string \in BreakStrings :
         chapters' = Returned(GetChaptersResult(metadata, body_lines, input_file,
                                                break_string, newline_mode, options))
    /\ call' = [fn |-> "get_chapters", done |-> TRUE, previous |-> chapters.value]
    /\ UNCHANGED <<vars, input_file, raw_text, newline_mode, ppc, metadata, body_lines,
                   book_title, book_author, options>>

NextCleanup ==
    \/ Construct
    \/ GetChapters
    \/ GetChaptersAgain

SpecCleanup == InitCleanup /\ [][NextCleanup]_all_vars

\* C23: for the example document with newline mode double and break marker
\* " @BRK#", get_chapters returns exactly two chapters whose texts are
\* "Prologue Hello." and "One World bold.": the heading text is joined to
\* the body without a break marker between them and the bold markers are
\* stripped.
C23_ExampleChapters ==
    (chapters.called /\ raw_text = ExampleDoc /\ newline_mode = "double"
        /\ options = DefaultOptions) =>
        /\ ~chapters.value.raised
        /\ Len(chapters.value.list) = 2
        /\ chapters.value.list[1].text = <<"P", "r", "o", "l", "o", "g", "u", "e", " ", "H", "e", "l", "l", "o", ".">>
        /\ chapters.value.list[2].text = <<"O", "n", "e", " ", "W", "o", "r", "l", "d", " ", "b", "o", "l", "d", ".">>

HasMalformedRule ==
    \E k \in 1..Len(options.search_and_replaces) : ~Compiles(options.search_and_replaces[k].search)

\* The parts of the segment that starts at position s, joined (line 179).
SegmentJoined(s) ==
    StrStrip(JoinParts(HeadingPart(SegmentHeading(s))
                         \o BodyPart(SubSeq(body_lines, s + 1, SegmentEnd(s)))))

\* C26: a malformed user regex is not swallowed: when get_chapters builds a
\* chapter text with such a rule in the list (some segment has a non-empty
\* joined text, the newline mode being valid), the regex error leaves
\* get_chapters and no chapter list is returned; no chapter is ever emitted
\* with the rule skipped.
C26_MalformedRulePropagates ==
    (chapters.called /\ HasMalformedRule /\ newline_mode \in NewlineModes) =>
        /\ chapters.value.list = <<>>
        /\ chapters.value.raised => chapters.value.error = "re.error"
        /\ (\E s \in ChapterHeadings \cup {0} : SegmentJoined(s) # <<>>) => chapters.value.raised

\* C26 witness: a document with text, a malformed rule, and the call raised
\* the regex error.
C26_Witness ==
    /\ chapters.called
    /\ HasMalformedRule
    /\ newline_mode \in NewlineModes
    /\ SegmentJoined(0) # <<>>
    /\ chapters.value.raised
    /\ chapters.value.error = "re.error"

\* The text is whitespace-normalized: single spaces only, none at either end.
Normalized(t) ==
    /\ \A k \in 1..Len(t) : t[k] \in WhitespaceChars => t[k] = " "
    /\ \A k \in 1..(Len(t) - 1) : ~(t[k] = " " /\ t[k + 1] = " ")
    /\ t # <<>> => (t[1] # " " /\ t[Len(t)] # " ")

\* C28: every chapter text returned by get_chapters is whitespace-normalized,
\* in every newline mode and with any flags or rules: no line break or tab,
\* no run of two or more whitespace characters, no leading or trailing
\* whitespace.
C28_TextsAreNormalized ==
    ListReturned =>
        \A k \in 1..Len(chapters.value.list) : Normalized(chapters.value.list[k].text)

\* C28 witness: a rule that inserts a line break was applied to a line with
\* a tab and stray spaces, and a chapter was returned.
C28_Witness ==
    /\ ListReturned
    /\ chapters.value.list # <<>>
    /\ options.search_and_replaces = <<Rule(<<"x">>, <<"\\", "n">>)>>
    /\ options.remove_reference_numbers
    /\ \E i \in 1..Len(body_lines) : "\t" \in {body_lines[i][k] : k \in 1..Len(body_lines[i])}
    /\ \E i \in 1..Len(body_lines) : "]" \in {body_lines[i][k] : k \in 1..Len(body_lines[i])}

\* -------------------------------------------- validate_config of a provider
\* The module-level lists of gemini_tts_provider.py.
GeminiSupportedVoices ==
    {"Zephyr", "Puck", "Charon", "Kore", "Fenrir", "Leda", "Orus",
     "Aoede", "Callirrhoe", "Autonoe", "Enceladus", "Iapetus", "Umbriel",
     "Algieba", "Despina", "Erinome", "Algenib", "Rasalgethi",
     "Laomedeia", "Achernar", "Alnilam", "Schedar", "Gacrux",
     "Pulcherrima", "Achird", "Zubenelgenubi", "Vindemiatrix",
     "Sadachbia", "Sadaltager", "Sulafat"}
GeminiSupportedOutputFormats == {"aac", "flac", "mp3", "ogg", "opus", "wav"}
GeminiSupportedModels == {"gemini-2.5-pro-preview-tts", "gemini-2.5-flash-preview-tts"}

\* The module-level lists of qwen_tts_provider.py.
QwenSupportedModels == {"qwen3-tts-flash", "qwen3-tts-flash-2025-09-18"}
QwenSupportedVoices ==
    {"Cherry", "Ethan", "Nofish", "Jennifer", "Ryan", "Katerina", "Elias",
     "Jada", "Dylan", "Sunny", "li", "Marcus", "Roy", "Peter", "Rocky",
     "Kiki", "Eric"}
QwenSupportedLanguageTypes ==
    {"Chinese", "English", "Spanish", "Russian", "Italian", "French",
     "Korean", "Japanese", "German", "Portuguese"}
QwenDefaultOutputFormat == "wav"

\* The module-level lists of minimax_tts_provider.py; it has no list of
\* models, DEFAULT_MODEL is the one model it names.
MinimaxSupportedVoices ==
    {"Chinese (Mandarin)_Warm_Bestie", "Chinese (Mandarin)_Sincere_Adult",
     "Chinese (Mandarin)_Soft_Girl"}
MinimaxSupportedLanguageBoosts ==
    {"Chinese", "Chinese,Yue", "English", "Arabic", "Russian", "Spanish",
     "French", "Portuguese", "German", "Turkish", "Dutch", "Ukrainian",
     "Vietnamese", "Indonesian", "Japanese", "Italian", "Korean", "Thai",
     "Polish", "Romanian", "Greek", "Czech", "Finnish", "Hindi",
     "Bulgarian", "Danish", "Hebrew", "Malay", "Slovak", "Swedish",
     "Croatian", "Hungarian", "Norwegian", "Slovenian", "Catalan",
     "Nynorsk", "Afrikaans", "auto"}
MinimaxOutputFormats == {"mp3", "wav"}
MinimaxDefaultModel == "fal-ai/minimax/speech-02-hd"

\* GeminiTTSProvider.validate_config: whether it raises ValueError.
GeminiValidateConfig(cfg) ==
    \/ cfg.output_format \notin GeminiSupportedOutputFormats
    \/ cfg.sample_rate <= 0
    \/ cfg.channels \notin {1, 2}
    \/ (cfg.voice_name # "" /\ cfg.voice_name \notin GeminiSupportedVoices)
    \/ \E voice \in cfg.speaker_voices : voice \notin GeminiSupportedVoices

\* Qwen3TTSProvider.validate_config: whether it raises ValueError.
QwenValidateConfig(cfg) ==
    \/ cfg.model_name \notin QwenSupportedModels
    \/ cfg.voice_name \notin QwenSupportedVoices
    \/ cfg.language \notin QwenSupportedLanguageTypes
    \/ cfg.output_format # QwenDefaultOutputFormat

\* MinimaxTTSProvider.validate_config: whether it raises ValueError.
MinimaxValidateConfig(cfg) ==
    \/ cfg.voice_name \notin MinimaxSupportedVoices
    \/ (cfg.language # "" /\ cfg.language \notin MinimaxSupportedLanguageBoosts)
    \/ cfg.output_format \notin MinimaxOutputFormats

\* validate_config of the configured provider.
ValidateConfig(cfg) ==
    CASE cfg.provider = "gemini" -> GeminiValidateConfig(cfg)
      [] cfg.provider = "qwen3" -> QwenValidateConfig(cfg)
      [] cfg.provider = "minimax" -> MinimaxValidateConfig(cfg)

\* The configurations a provider is validated with, after its __init__ put
\* the defaults in: per field a value each provider supports and one that
\* none supports. language is the language type of Qwen3 and the language
\* boost of MiniMax (which may be empty).
ProviderConfigs ==
    [provider : Providers,
     model_name : {"gemini-2.5-pro-preview-tts", "qwen3-tts-flash",
                   MinimaxDefaultModel, "no-such-model"},
     voice_name : {"Kore", "Cherry", "Chinese (Mandarin)_Warm_Bestie", "NoSuchVoice"},
     output_format : {"wav", "mp3", "flac", "xyz"},
     sample_rate : {24000, -1},
     channels : {1, 3},
     speaker_voices : {{}, {"Puck", "NoSuchVoice"}},
     language : {"", "English", "Klingon"}]

InitValidate ==
    \E cfg \in ProviderConfigs :
        InitCall([fn |-> "validate_config", done |-> FALSE, config |-> cfg])

ValidateConfigCall ==
    /\ call.fn = "validate_config"
    /\ ~call.done
    /\ call' = [fn |-> call.fn, done |-> TRUE, config |-> call.config,
                raised |-> ValidateConfig(call.config)]
    /\ UNCHANGED <<vars, parser_vars>>

NextValidate == ValidateConfigCall

SpecValidate == InitValidate /\ [][NextValidate]_all_vars

\* The values a provider supports.
SupportedVoices(p) ==
    CASE p = "gemini" -> GeminiSupportedVoices
      [] p = "qwen3" -> QwenSupportedVoices
      [] p = "minimax" -> MinimaxSupportedVoices
SupportedModels(p) ==
    CASE p = "gemini" -> GeminiSupportedModels
      [] p = "qwen3" -> QwenSupportedModels
      [] p = "minimax" -> {MinimaxDefaultModel}
SupportedFormats(p) ==
    CASE p = "gemini" -> GeminiSupportedOutputFormats
      [] p = "qwen3" -> {QwenDefaultOutputFormat}
      [] p = "minimax" -> MinimaxOutputFormats

\* C25: for each of the three providers, validate_config raises an error for
\* every configuration whose voice name, model name or output format is not
\* in that provider's supported set.
C25_InvalidConfigIsRejected ==
    (call.fn = "validate_config" /\ call.done) =>
        LET cfg == call.config IN
        (\/ cfg.voice_name \notin SupportedVoices(cfg.provider)
         \/ cfg.model_name \notin SupportedModels(cfg.provider)
         \/ cfg.output_format \notin SupportedFormats(cfg.provider)) => call.raised

\* C27: the chunk id chapter-{idx}_{title}_chunk_{index}_of_{total} is
\* computed once per chunk before its first attempt and is the same on every
\* retry of the chunk (while the chunk is attempted or backed off, at any
\* attempt number, the local chunk_id is the string of the chapter, the
\* chunk index and the chunk count); within a chapter the appended ids are
\* pairwise distinct strings, their index runs 1..N in list order and their
\* total is N; ids of chapters with different chapter index are distinct.
C27_ChunkIdsStableAndDistinct ==
    \A c \in Chapters :
        LET n == Len(chunks[c])
            ids == chunk_ids[c]
        IN  /\ pc[c] \in {"try", "sleep"} =>
                 /\ index[c] \in 1..n
                 /\ chunk_id[c].text = ChunkIdText(AudioTags(c), index[c], n)
                 /\ chunk_id[c].index = index[c]
                 /\ chunk_id[c].total = n
            /\ Len(ids) <= n
            /\ \A k \in 1..Len(ids) :
                 /\ ids[k].index = k
                 /\ ids[k].total = n
                 /\ ids[k].text = ChunkIdText(AudioTags(c), k, n)
            /\ \A j, k \in 1..Len(ids) : j # k => ids[j].text # ids[k].text
            /\ \A d \in Chapters \ {c} :
                 \A j \in 1..Len(ids), k \in 1..Len(chunk_ids[d]) :
                     ids[j].text # chunk_ids[d][k].text

\* C27 witness: one chapter is at the third attempt of its second chunk, the
\* id of its first chunk appended, while the other chapter has appended the
\* ids of two chunks.
C27_Witness ==
    \E c \in Chapters, d \in Chapters :
        /\ c # d
        /\ pc[c] = "try"
        /\ index[c] = 2
        /\ attempt[c] = 3
        /\ Len(chunk_ids[c]) = 1
        /\ chunk_id[c].text = ChunkIdText(AudioTags(c), 2, 2)
        /\ Len(chunk_ids[d]) = 2

\* ------------------------------------------------------------- handle_args
\* The providers get_supported_tts_providers() lists, in its order; the first
\* one is the default of --tts.
SupportedTtsProviders ==
    <<"azure", "openai", "edge", "gemini", "qwen3", "minimax", "piper">>

\* choices and default of --log
LogLevels == <<"DEBUG", "INFO", "WARNING", "ERROR", "CRITICAL">>
DefaultLog == "INFO"

\* The option strings of the model's command lines.
OptionStrings == {"--tts", "--log"}

\* The positional arguments of the parser, in the order they were added.
Positionals == <<"input_file", "output_folder">>

\* The range of a sequence.
Range(s) == {s[k] : k \in 1..Len(s)}

\* Any value is accepted for --log.
ArgChoicesLogUnchecked(option) ==
    IF option = "--tts" THEN Range(SupportedTtsProviders)
    ELSE Range(SupportedTtsProviders) \cup Range(LogLevels) \cup {"a", "nope"}

\* choices= of an option
ArgChoices(option) ==
    IF option = "--tts" THEN Range(SupportedTtsProviders) ELSE Range(LogLevels)

\* The namespace before parsing: the defaults.
ArgDefaults ==
    [exit |-> FALSE, positionals |-> <<>>, tts |-> SupportedTtsProviders[1], log |-> DefaultLog]

\* argparse's error(): the usage message and SystemExit(2).
ArgError == [exit |-> TRUE, positionals |-> <<>>, tts |-> "", log |-> ""]

\* parse_args on argv from position i on, ns being the namespace so far: an
\* option string takes the next argument as its value, which must not be an
\* option string and must be one of its choices; any other argument is the
\* next positional.
RECURSIVE ParseFrom(_, _, _)
ParseFrom(argv, i, ns) ==
    IF i > Len(argv) THEN ns
    ELSE IF argv[i] \in OptionStrings
    THEN IF i = Len(argv) \/ argv[i + 1] \in OptionStrings THEN ArgError
         ELSE IF argv[i + 1] \notin ArgChoices(argv[i]) THEN ArgError
         ELSE ParseFrom(argv, i + 2,
                        IF argv[i] = "--tts" THEN [ns EXCEPT !.tts = argv[i + 1]]
                        ELSE [ns EXCEPT !.log = argv[i + 1]])
    ELSE ParseFrom(argv, i + 1, [ns EXCEPT !.positionals = Append(@, argv[i])])

\* handle_args(): parse_args() exits when a required positional is missing
\* or an argument is left over; otherwise GeneralConfig(args) is returned.
HandleArgs(argv) ==
    LET ns == ParseFrom(argv, 1, ArgDefaults) IN
    IF ns.exit \/ Len(ns.positionals) # Len(Positionals) THEN [exit |-> TRUE]
    ELSE [exit |-> FALSE,
          config |-> [input_file |-> ns.positionals[1], output_folder |-> ns.positionals[2],
                      tts |-> ns.tts, log |-> ns.log]]

\* Command lines of at most MaxArgs arguments: a plain word, the two option
\* strings, a supported provider, a log level, and a word that is neither.
MaxArgs == 6
ArgTokens == {"a", "--tts", "gemini", "--log", "DEBUG", "nope"}
ArgLists == SeqsUpTo(ArgTokens, MaxArgs)

InitArgs ==
    \E argv \in ArgLists : InitCall([fn |-> "handle_args", done |-> FALSE, argv |-> argv])

HandleArgsCall ==
    /\ call.fn = "handle_args"
    /\ ~call.done
    /\ call' = [fn |-> call.fn, done |-> TRUE, argv |-> call.argv,
                result |-> HandleArgs(call.argv)]
    /\ UNCHANGED <<vars, parser_vars>>

NextArgs == HandleArgsCall

SpecArgs == InitArgs /\ [][NextArgs]_all_vars

\* The positions of argv that hold an option string, the value of one, and a
\* positional argument.
OptionsAt(argv) == {i \in 1..Len(argv) : argv[i] \in OptionStrings}
ValuesAt(argv) == {i \in 2..Len(argv) : (i - 1) \in OptionsAt(argv) /\ i \notin OptionsAt(argv)}
PositionalsAt(argv) == (1..Len(argv)) \ (OptionsAt(argv) \cup ValuesAt(argv))

\* Option o is given at position i with a value that is not one of choices.
BadValue(argv, o, choices) ==
    \E i \in OptionsAt(argv) : argv[i] = o /\ (i = Len(argv) \/ argv[i + 1] \notin choices)

\* The value of the last occurrence of option o, or its default.
LastValue(argv, o, default) ==
    IF \E i \in OptionsAt(argv) : argv[i] = o
    THEN argv[(CHOOSE i \in OptionsAt(argv) :
                  argv[i] = o /\ \A j \in OptionsAt(argv) : argv[j] = o => j <= i) + 1]
    ELSE default

\* The k-th smallest element of a set of numbers.
RECURSIVE Nth(_, _)
Nth(set, k) ==
    LET m == CHOOSE x \in set : \A y \in set : x <= y IN
    IF k = 1 THEN m ELSE Nth(set \ {m}, k - 1)

\* C29: handle_args ends with SystemExit and returns no configuration when
\* --tts is not one of the supported providers, when fewer than the two
\* required positional arguments are given, or when --log is not one of
\* DEBUG, INFO, WARNING, ERROR, CRITICAL; with valid arguments (two
\* positionals, every option with one of its choices) it returns a
\* configuration carrying the given values, the defaults azure and INFO
\* standing for an option not given.
C29_HandleArgsRejectsOrReturns ==
    (call.fn = "handle_args" /\ call.done) =>
        LET argv == call.argv
            bad_tts == BadValue(argv, "--tts",
                                {"azure", "openai", "edge", "gemini", "qwen3", "minimax", "piper"})
            bad_log == BadValue(argv, "--log", {"DEBUG", "INFO", "WARNING", "ERROR", "CRITICAL"})
            pos == PositionalsAt(argv)
        IN  /\ bad_tts => call.result.exit
            /\ bad_log => call.result.exit
            /\ Cardinality(pos) < 2 => call.result.exit
            /\ (~bad_tts /\ ~bad_log /\ Cardinality(pos) = 2) =>
                 /\ ~call.result.exit
                 /\ call.result.config.input_file = argv[Nth(pos, 1)]
                 /\ call.result.config.output_folder = argv[Nth(pos, 2)]
                 /\ call.result.config.tts = LastValue(argv, "--tts", "azure")
                 /\ call.result.config.log = LastValue(argv, "--log", "INFO")

\* C29 witness: both options given with valid values between and after the
\* two positionals, and the configuration carries all four values.
C29_Witness ==
    /\ call.fn = "handle_args"
    /\ call.done
    /\ call.argv = <<"a", "--tts", "gemini", "nope", "--log", "DEBUG">>
    /\ call.result = [exit |-> FALSE,
                      config |-> [input_file |-> "a", output_folder |-> "nope",
                                  tts |-> "gemini", log |-> "DEBUG"]]

\* ------------------------------------------------- termination of the loop
\* The steps of chapter c's text_to_speech call once it was dispatched: each
\* is a statement of the worker thread that runs the call, and a backend
\* call that returns or raises is a SynthesizeOk or SynthesizeFail step.
ChapterStep(c) ==
    \/ SynthesizeOk(c)
    \/ SynthesizeFail(c)
    \/ Backoff(c)
    \/ GeminiOk(c)
    \/ GeminiFail(c)
    \/ Merge(c)
    \/ SetAudioTags(c)

\* A pool of one worker: the calls of the chapters run one after the other.
InitLive == InitPool(1)

\* The worker thread keeps running its call: a call that can take a step
\* eventually takes one.
SpecLive == InitLive /\ [][Next]_vars /\ \A c \in Chapters : WF_vars(ChapterStep(c))

\* The backoff waits of chapter c for chunk i.
SleepsFor(c, i) == SelectSeq(events[c], LAMBDA e : e.kind = "sleep" /\ e.index = i)

\* The call of chapter c is in its chunk loop, at the merge or at the tags.
InFlight(c) == pc[c] \in {"try", "sleep", "merge", "tags"}

\* The resources a Qwen3 or MiniMax call of chapter c has used so far.
WithinRetryBudget(c) ==
    LET n == Len(chunks[c]) IN
    /\ Len(Calls(c)) <= 4 * n
    /\ attempt[c] <= 4
    /\ \A e \in Range(events[c]) : e.kind \in {"call", "sleep"} => e.attempt \in 1..4
    /\ \A i \in 1..n :
        /\ Len(CallsFor(c, i)) <= 4
        /\ Len(SleepsFor(c, i)) <= 3

\* How a Qwen3 or MiniMax call of chapter c ended: after merge and tags, or
\* with an exception; an exception out of the chunk loop only after the
\* fourth failed attempt of the chunk it stands at.
EndedAsClaimed(c) ==
    /\ pc[c] = "returned" =>
         /\ Len(EventsOfKind(c, "merge")) = 1
         /\ Len(EventsOfKind(c, "tags")) = 1
         /\ out_file[c] = "tagged"
    /\ pc[c] = "raised" => raised[c] # NoError
    /\ (pc[c] = "raised" /\ EventsOfKind(c, "merge") = <<>>) =>
         /\ Len(CallsFor(c, index[c])) = 4
         /\ \A k \in 1..4 : ~CallsFor(c, index[c])[k].ok

\* C30: every backend call returning or raising, every text_to_speech call
\* of Qwen3 and MiniMax on N chunks terminates, normally after merge and
\* tagging or with an exception, after at most 4*N backend calls and at most
\* 3 backoff waits per chunk; no attempt sequence goes past attempt 4, and
\* the chunk loop is left with an exception only when the fourth attempt of
\* a chunk failed.
C30_BoundedRetryTerminates ==
    /\ [](IsRetryProvider =>
            \A c \in Chapters : WithinRetryBudget(c) /\ EndedAsClaimed(c))
    /\ \A c \in Chapters :
          (IsRetryProvider /\ InFlight(c)) ~> (pc[c] \in {"returned", "raised"})

\* C30 witness: a call on two chunks that used the whole budget and
\* returned: 4 attempts and 3 backoff waits for each chunk, 8 backend calls.
C30_Witness ==
    \E c \in Chapters :
        /\ IsRetryProvider
        /\ Len(chunks[c]) = 2
        /\ pc[c] = "returned"
        /\ Len(Calls(c)) = 8
        /\ Len(SleepsFor(c, 1)) = 3
        /\ Len(SleepsFor(c, 2)) = 3
        /\ out_file[c] = "tagged"

\* ------------------------------------------------- retry state per chunk
\* The failed backend calls of chapter c for the chunks before chunk i.
EarlierFailures(c, i) ==
    SelectSeq(events[c], LAMBDA e : e.kind = "call" /\ e.index < i /\ ~e.ok)

\* Chunk i of chapter c failed three times and then succeeded.
FailedThriceThenOk(c, i) ==
    LET cf == CallsFor(c, i) IN
    /\ Len(cf) = 4
    /\ \A p \in 1..3 : ~cf[p].ok
    /\ cf[4].ok

\* C31: Qwen3 / MiniMax: the retry state belongs to the chunk. The calls of
\* every chunk are numbered 1, 2, .. from attempt 1, whatever the earlier
\* chunks of the chapter consumed; a chunk that has had no call yet stands
\* at attempt 1 with no last error; the last error, and the exception of an
\* exhausted chunk, is that of the chunk's own latest attempt, and a chunk is
\* exhausted only by four failures of its own; a chapter whose every chunk
\* failed three times and then succeeded has left the chunk loop without an
\* exception, and when it ended with one, that is the merge's.
C31_RetryStateIsPerChunk ==
    IsRetryProvider =>
    \A c \in Chapters :
        LET n == Len(chunks[c]) IN
        /\ \A i \in 1..n :
              LET cf == CallsFor(c, i) IN
              /\ \A p \in 1..Len(cf) : cf[p].attempt = p
              /\ Len(cf) <= 4
        /\ (pc[c] = "try" /\ CallsFor(c, index[c]) = <<>>) =>
              /\ attempt[c] = 1
              /\ last_error[c] = NoError
        /\ (pc[c] \in {"try", "sleep"} /\ CallsFor(c, index[c]) # <<>>) =>
              /\ last_error[c].index = index[c]
              /\ last_error[c].attempt = Len(CallsFor(c, index[c]))
        /\ (pc[c] = "raised" /\ EventsOfKind(c, "merge") = <<>>) =>
              /\ raised[c].index = index[c]
              /\ raised[c].attempt = 4
              /\ Len(CallsFor(c, index[c])) = 4
        /\ (n > 0 /\ \A i \in 1..n : FailedThriceThenOk(c, i)) =>
              /\ Len(audio_segments[c]) = n
              /\ pc[c] \in {"merge", "tags", "returned", "raised"}
              /\ pc[c] = "raised" => events[c][Len(events[c])] = Event("merge", 0, 0, FALSE, 0)
              /\ pc[c] = "returned" => out_file[c] = "tagged"

\* C31 witness: both chunks of a chapter failed three times and succeeded at
\* the fourth attempt, and the chapter's call returned with its file tagged.
C31_Witness ==
    \E c \in Chapters :
        /\ IsRetryProvider
        /\ Len(chunks[c]) = 2
        /\ FailedThriceThenOk(c, 1)
        /\ FailedThriceThenOk(c, 2)
        /\ Len(EarlierFailures(c, 2)) = 3
        /\ pc[c] = "returned"
        /\ out_file[c] = "tagged"

\* ------------------------------------------------ chunks that prepare to ""
\* DEFAULT_BREAK_STRING of the Qwen3 and MiniMax providers.
DefaultBreakString == <<" ", "@", "B", "R", "K", "#">>

\* str.replace(old, new) from position i on.
RECURSIVE StrReplaceFrom(_, _, _, _)
StrReplaceFrom(t, i, old, new) ==
    IF i > Len(t) THEN <<>>
    ELSE IF StartsAt(t, i, old) THEN new \o StrReplaceFrom(t, i + Len(old), old, new)
    ELSE <<t[i]>> \o StrReplaceFrom(t, i + 1, old, new)

\* _prepare_text: text.replace(self.get_break_string(), "\n\n").strip()
PrepareText(t) == StrStrip(StrReplaceFrom(t, 1, DefaultBreakString, <<"\n", "\n">>))

\* Chunk texts: a word, a word with a break marker after it, the break
\* marker alone, and a blank.
PreparedChunkTexts ==
    {<<"w">>, <<"w">> \o DefaultBreakString, DefaultBreakString, <<" ">>}

\* The chunk lists the loop is run on: up to MaxChunks chunks.
PreparedChunkLists == UNION {[1..n -> PreparedChunkTexts] : n \in 1..MaxChunks}

\* text_to_speech of chapter 1 after split_text returned chs, before the
\* first iteration of the chunk loop.
InitChunkLoop ==
    \E p \in RetryProviders, chs \in PreparedChunkLists :
        /\ provider = p
        /\ worker_count = 1
        /\ text = [c \in Chapters |-> IF c = 1 THEN "words" ELSE ""]
        /\ pc = [c \in Chapters |-> IF c = 1 THEN LoopPc(1, Len(chs)) ELSE "idle"]
        /\ chunks = [c \in Chapters |-> IF c = 1 THEN chs ELSE <<>>]
        /\ index = [c \in Chapters |-> IF c = 1 THEN 1 ELSE 0]
        /\ attempt = [c \in Chapters |-> IF c = 1 THEN 1 ELSE 0]
        /\ last_error = [c \in Chapters |-> NoError]
        /\ audio_segments = [c \in Chapters |-> <<>>]
        /\ chunk_ids = [c \in Chapters |-> <<>>]
        /\ chunk_id = [c \in Chapters |->
                          IF c = 1 THEN ChunkId(AudioTags(1), 1, Len(chs)) ELSE NoChunkId]
        /\ raised = [c \in Chapters |-> NoError]
        /\ out_file = [c \in Chapters |-> "absent"]
        /\ events = [c \in Chapters |-> <<>>]
        /\ merge_args = [c \in Chapters |-> <<>>]
        /\ ParserIdle
        /\ call = NoCall

NextChunkLoop ==
    \E c \in Chapters :
        \/ SynthesizeOk(c)
        \/ SynthesizeFail(c)
        \/ Backoff(c)
        \/ Merge(c)
        \/ SetAudioTags(c)

SpecChunkLoop == InitChunkLoop /\ [][NextChunkLoop]_vars

\* C32: Qwen3 / MiniMax: for a chunk whose prepared text (break marker
\* replaced, trimmed) is empty, no backend call is made, no buffer is
\* appended under its chunk id, and the chapter does not fail on it, so that
\* the remaining chunks are still processed.
C32_EmptyChunkIsGuarded ==
    IsRetryProvider =>
    \A c \in Chapters : \A i \in 1..Len(chunks[c]) :
        PrepareText(chunks[c][i]) = <<>> =>
            /\ CallsFor(c, i) = <<>>
            /\ \A k \in 1..Len(chunk_ids[c]) : chunk_ids[c][k].index # i
            /\ \A k \in 1..Len(audio_segments[c]) : audio_segments[c][k].index # i
            /\ (pc[c] = "raised" /\ EventsOfKind(c, "merge") = <<>>) => raised[c].index # i

\* --------------------------------------------------- get_search_and_replaces
\* fp.readlines(): the lines of the file, each with its line terminator; the
\* last line has none when the file does not end with one.
RECURSIVE ReadLinesFrom(_, _, _)
ReadLinesFrom(t, i, cur) ==
    IF i > Len(t) THEN (IF cur = <<>> THEN <<>> ELSE <<cur>>)
    ELSE IF t[i] = "\n" THEN <<Append(cur, "\n")>> \o ReadLinesFrom(t, i + 1, <<>>)
    ELSE ReadLinesFrom(t, i + 1, Append(cur, t[i]))

ReadLines(t) == ReadLinesFrom(t, 1, <<>>)

\* The separator of a rule line.
RuleSeparator == <<"=", "=">>

\* pat in s, s.startswith(pat), s.endswith(pat)
Contains(s, pat) == \E i \in 1..Len(s) : StartsAt(s, i, pat)
StartsWith(s, pat) == StartsAt(s, 1, pat)
EndsWith(s, pat) == StartsAt(s, Len(s) - Len(pat) + 1, pat)

\* s.split(sep)
RECURSIVE StrSplitFrom(_, _, _, _)
StrSplitFrom(s, i, sep, cur) ==
    IF i > Len(s) THEN <<cur>>
    ELSE IF StartsAt(s, i, sep) THEN <<cur>> \o StrSplitFrom(s, i + Len(sep), sep, <<>>)
    ELSE StrSplitFrom(s, i + 1, sep, Append(cur, s[i]))

StrSplit(s, sep) == StrSplitFrom(s, 1, sep, <<>>)

\* s[:-1]
DropLast(s) == SubSeq(s, 1, Len(s) - 1)

\* The condition under which a line of the file gives a rule.
IsRuleLine(line) ==
    /\ Contains(line, RuleSeparator)
    /\ ~StartsWith(line, RuleSeparator)
    /\ ~EndsWith(line, RuleSeparator)
    /\ ~StartsWith(line, <<"#">>)

\* {"search": split("==")[0], "replace": split("==")[1][:-1]}
RuleOfLine(line) ==
    Rule(StrSplit(line, RuleSeparator)[1], DropLast(StrSplit(line, RuleSeparator)[2]))

RECURSIVE RulesOfLines(_)
RulesOfLines(lines) ==
    IF lines = <<>> THEN <<>>
    ELSE (IF IsRuleLine(Head(lines)) THEN <<RuleOfLine(Head(lines))>> ELSE <<>>)
             \o RulesOfLines(Tail(lines))

\* get_search_and_replaces: file is config.search_and_replace_file, None or
\* the content of the file it names.
GetSearchAndReplaces(file) ==
    IF file.some THEN RulesOfLines(ReadLines(file.value)) ELSE <<>>

\* Rule files of at most MaxFileLen characters.
MaxFileLen == 6
RuleFileChars == {"a", "#", "=", "\n"}
RuleFiles == {None} \cup {Some(t) : t \in SeqsUpTo(RuleFileChars, MaxFileLen)}

InitRules ==
    \E file \in RuleFiles :
        InitCall([fn |-> "get_search_and_replaces", done |-> FALSE, file |-> file])

GetSearchAndReplacesCall ==
    /\ call.fn = "get_search_and_replaces"
    /\ ~call.done
    /\ call' = [fn |-> call.fn, done |-> TRUE, file |-> call.file,
                result |-> GetSearchAndReplaces(call.file)]
    /\ UNCHANGED <<vars, parser_vars>>

NextRules == GetSearchAndReplacesCall

SpecRules == InitRules /\ [][NextRules]_all_vars

\* The lines of a text without their terminators.
TextLines(t) ==
    LET parts == StrSplit(t, <<"\n">>) IN
    IF parts[Len(parts)] = <<>> THEN SubSeq(parts, 1, Len(parts) - 1) ELSE parts

\* line is P==R with P non-empty, not starting with '#', and no other '='.
IsPatternLine(line) ==
    \E k \in 1..Len(line) :
        /\ k >= 2
        /\ StartsAt(line, k, RuleSeparator)
        /\ line[1] # "#"
        /\ \A j \in 1..Len(line) : line[j] = "=" => j \in {k, k + 1}

\* Its rule: the text before and the text after the separator.
PatternRule(line) ==
    LET k == CHOOSE k \in 1..Len(line) : StartsAt(line, k, RuleSeparator) IN
    Rule(SubSeq(line, 1, k - 1), SubSeq(line, k + 2, Len(line)))

\* A comment line or a line starting with the separator.
IsSkippedLine(line) == StartsWith(line, <<"#">>) \/ StartsWith(line, RuleSeparator)

RECURSIVE PatternRules(_)
PatternRules(lines) ==
    IF lines = <<>> THEN <<>>
    ELSE (IF IsPatternLine(Head(lines)) THEN <<PatternRule(Head(lines))>> ELSE <<>>)
             \o PatternRules(Tail(lines))

\* C33: for a file whose every line is of the form P==R (P non-empty and not
\* starting with '#', exactly one '=='), a comment line or a line starting
\* with '==', get_search_and_replaces returns, in file order, the rule
\* (P, R) of every P==R line, R being exactly the text after '==' without
\* the line terminator, also for a last line without a terminator, and
\* nothing for the other lines.
C33_RulesFollowFileLines ==
    (call.fn = "get_search_and_replaces" /\ call.done /\ call.file.some) =>
        LET lines == TextLines(call.file.value) IN
        (\A k \in 1..Len(lines) : IsPatternLine(lines[k]) \/ IsSkippedLine(lines[k])) =>
            call.result = PatternRules(lines)

\* ------------------------------------------------- C34: heading, bold, link
\* --- documents with bold spans and links
MaxMarkupLines == 3
MarkupLines ==
    {<<"#", " ", "A">>,
     <<"#", " ", "*", "*", "A", "*", "*">>,
     <<"x">>,
     <<"*", "*", "b", "*", "*">>,
     <<"_", "*", "*", "_">>,
     <<"[", "l", "]", "(", "u", ")">>,
     <<"[", "l", "]", "(", "u", "(", "v", ")", ")">>}

MarkupDocs == {Join(<<"\n">>, body) : body \in SeqsUpTo(MarkupLines, MaxMarkupLines)}

InitMarkup ==
    /\ PipelineIdle
    /\ \E doc \in MarkupDocs, mode \in NewlineModes :
         ParserNew(<<"b", ".", "m", "d">>, doc, mode)

SpecMarkup == InitMarkup /\ [][NextParser]_all_vars

\* A text of letters, digits and spaces only: it holds no markdown syntax.
IsPlainText(t) == \A i \in 1..Len(t) : IsLetter(t[i]) \/ t[i] \in Digits \/ t[i] = " "

\* A line that is one link `[text](url)`, and its visible text.
IsLinkLine(line) ==
    /\ Len(line) >= 5
    /\ line[1] = "["
    /\ line[Len(line)] = ")"
    /\ FindSeq(line, 3, <<"]", "(">>) > 0
LinkText(line) == SubSeq(line, 2, FindSeq(line, 3, <<"]", "(">>) - 1)

\* The cleaned text of the lines that follow the heading at position s.
SegmentBodyText(s) ==
    BuildChapterText(SubSeq(body_lines, s + 1, SegmentEnd(s)), chapters.value.break_string,
                     None, newline_mode, options).text

\* The text of a chapter that a heading with the text h started and whose
\* cleaned body is b: the heading text, then the body, a space or the break
\* marker between them.
HeadingThenBody(t, h, b) ==
    IF b = <<>> THEN t = h
    ELSE \/ t = h \o <<" ">> \o b
         \/ t = h \o <<" ">> \o StrStrip(chapters.value.break_string) \o <<" ">> \o b

\* C34: for every chapter started by a heading of level 1 or 2 whose text is
\* non-empty and plain, the chapter text that get_chapters returns begins
\* with the heading text and goes on with the cleaned body; it holds no bold
\* marker (`**` or `__`); and a link `[text](url)` of its lines appears as
\* its visible text only: the text is there, brackets and parentheses are not.
C34_HeadingThenCleanBody ==
    ScanReturned =>
        \A k \in 1..Len(chapters.value.list) :
            LET ch == chapters.value.list[k]
                h == SegmentHeading(ch.start)
            IN  (ch.start > 0 /\ Truthy(h) /\ IsPlainText(h.value)) =>
                    /\ StartsWith(ch.text, h.value)
                    /\ HeadingThenBody(ch.text, h.value, SegmentBodyText(ch.start))
                    /\ ~Contains(ch.text, <<"*", "*">>)
                    /\ ~Contains(ch.text, <<"_", "_">>)
                    /\ \A i \in (ch.start + 1)..SegmentEnd(ch.start) :
                          IsLinkLine(body_lines[i]) =>
                              /\ Contains(ch.text, LinkText(body_lines[i]))
                              /\ \A j \in 1..Len(ch.text) : ch.text[j] \notin {"[", "]", "(", ")"}

\* ------------------------------------------- responses without audio, C35
\* The kinds of failure of one attempt: `_synthesize` raises all of them
\* inside the try of the retry loop. "no_audio" is the RuntimeError of a
\* response without audio URL and the HTTPError of a failed download of the
\* audio URL; both come after the backend request returned.
FailureKinds == BackendOutcomes \ {"ok"}

\* The last event of chapter c is the backoff wait after attempt a of chunk i.
SleptAfter(c, i, a) ==
    /\ events[c] # <<>>
    /\ events[c][Len(events[c])] = Event("sleep", i, a, FALSE, RETRY_BACKOFF_SECONDS * a)

\* How the retry loop of chapter c stands after a failure of the kind given,
\* recorded as last error e: the failure was attempt e.attempt of the chunk
\* and one call of the backend; before the last attempt it is followed by
\* the backoff wait and by one more attempt, and it ends the chapter only as
\* the fourth attempt, after three waits.
HandledAsFailedAttempt(c, e) ==
    LET cf == CallsFor(c, e.index) IN
    /\ e.index = index[c]
    /\ e.attempt \in 1..4
    /\ Len(cf) = e.attempt
    /\ ~cf[e.attempt].ok
    /\ pc[c] \in {"sleep", "try", "raised"}
    /\ pc[c] = "sleep" => (e.attempt < 4 /\ attempt[c] = e.attempt)
    /\ pc[c] = "try" => (e.attempt < 4 /\ attempt[c] = e.attempt + 1
                          /\ SleptAfter(c, e.index, e.attempt))
    /\ pc[c] = "raised" =>
          /\ e.attempt = 4
          /\ raised[c] = e
          /\ Len(SleepsFor(c, e.index)) = 3
          /\ events[c][Len(events[c])] = cf[4]

\* C35: Qwen3 / MiniMax: a response without audio URL (or a failed download
\* of the audio URL) is handled exactly like an exception of the backend
\* call: it counts as one failed attempt of the chunk, is followed by the
\* backoff wait and a retry that issues the whole request again, and fails
\* the chapter only as the fourth failed attempt.
C35_NoAudioIsRetriedLikeException ==
    IsRetryProvider =>
    \A c \in Chapters :
        /\ \A kind \in FailureKinds :
              (last_error[c].kind = kind /\ EventsOfKind(c, "merge") = <<>>) =>
                  HandledAsFailedAttempt(c, last_error[c])
        /\ (pc[c] = "raised" /\ EventsOfKind(c, "merge") = <<>>) =>
              /\ raised[c].kind \in FailureKinds
              /\ raised[c] = last_error[c]

\* C35 witness: the third attempt of a chunk got a response without audio,
\* the loop waited 6 seconds and stands at the fourth attempt.
C35_Witness ==
    \E c \in Chapters :
        /\ IsRetryProvider
        /\ pc[c] = "try"
        /\ last_error[c] = Error(index[c], 3, "no_audio")
        /\ attempt[c] = 4
        /\ SleptAfter(c, index[c], 3)
        /\ Len(CallsFor(c, index[c])) = 3

\* ------------------------------------------------- C36: number of chapters
\* The text before the first heading of level 1 or 2, after cleanup.
PreHeadingText == SegmentText(0)

\* Every heading line of level 1 or 2 has a text.
HeadingsHaveText ==
    \A h \in ChapterHeadings : StrStrip(HeadingMatch(body_lines[h]).text) # <<>>

\* C36: for a body with H heading lines of level 1 or 2, get_chapters
\* returns at most H+1 chapters; when every such heading has a non-empty
\* text and the cleanup options are the defaults (no rule, no stripping
\* flag), it returns exactly H chapters, and one more if and only if the
\* text before the first heading is non-empty after cleanup.
C36_ChapterCount ==
    ListReturned =>
        LET H == Cardinality(ChapterHeadings)
            n == Len(chapters.value.list)
        IN  /\ n <= H + 1
            /\ (HeadingsHaveText /\ options = DefaultOptions) =>
                   n = H + (IF PreHeadingText # <<>> THEN 1 ELSE 0)

\* --------------------------------------- C37: MiniMax numeric parameters
\* A Python float: a finite value n/d (d > 0), an infinity or a NaN. The
\* conversion of a short decimal to a float is monotonic and the bounds of
\* the three ranges are short decimals, so the order of the floats is the
\* order of the fractions.
Finite(n, d) == [k |-> "finite", n |-> n, d |-> d]
PosInf == [k |-> "inf", n |-> 0, d |-> 1]
NegInf == [k |-> "-inf", n |-> 0, d |-> 1]
NaN == [k |-> "nan", n |-> 0, d |-> 1]

\* x < y on floats: every comparison with a NaN is false.
FloatLess(x, y) ==
    CASE x.k = "nan" \/ y.k = "nan" -> FALSE
      [] x.k = "-inf" -> y.k # "-inf"
      [] x.k = "inf" -> FALSE
      [] OTHER -> CASE y.k = "inf" -> TRUE
                    [] y.k = "-inf" -> FALSE
                    [] OTHER -> x.n * y.d < y.n * x.d

\* x == y on floats that are no NaN.
FloatEqual(x, y) == x.k = y.k /\ x.n * y.d = y.n * x.d

\* The builtins min(a, b) and max(a, b): the first argument unless the
\* second is smaller (larger).
PyMin(a, b) == IF FloatLess(b, a) THEN b ELSE a
PyMax(a, b) == IF FloatLess(a, b) THEN b ELSE a

\* float(s) of a string of digits, '.', '-' and other characters: an
\* optional sign, then digits with at most one point and at least one digit.
DigitChars == <<"0", "1", "2", "3", "4", "5", "6", "7", "8", "9">>
DigitValue(ch) == (CHOOSE k \in 1..10 : DigitChars[k] = ch) - 1
RECURSIVE DigitsValue(_)
DigitsValue(s) ==
    IF s = <<>> THEN 0 ELSE 10 * DigitsValue(SubSeq(s, 1, Len(s) - 1)) + DigitValue(s[Len(s)])
RECURSIVE PowerOfTen(_)
PowerOfTen(e) == IF e = 0 THEN 1 ELSE 10 * PowerOfTen(e - 1)

Failed(error) == [ok |-> FALSE, error |-> error, value |-> NaN]
Converted(v) == [ok |-> TRUE, error |-> "none", value |-> v]

FloatOfStr(s) ==
    LET neg == s # <<>> /\ s[1] = "-"
        u == IF neg THEN Tail(s) ELSE s
        point == Find(u, 1, {"."})
        whole == IF point = 0 THEN u ELSE SubSeq(u, 1, point - 1)
        frac == IF point = 0 THEN <<>> ELSE SubSeq(u, point + 1, Len(u))
        digits == whole \o frac
    IN  IF digits # <<>> /\ \A i \in 1..Len(digits) : digits[i] \in Digits
        THEN Converted(Finite((IF neg THEN -1 ELSE 1) * DigitsValue(digits),
                              PowerOfTen(Len(frac))))
        ELSE Failed("ValueError")

\* float(raw) of a float, a string or an object that is no number.
FloatOf(raw) ==
    CASE raw.type = "float" -> Converted(raw.float)
      [] raw.type = "str" -> FloatOfStr(raw.str)
      [] OTHER -> Failed("TypeError")

\* The return of a _resolve_* method.
Resolved(v) == [raised |-> FALSE, value |-> v]
ResolveRaised == [raised |-> TRUE, value |-> NaN]

\* `except (ValueError, TypeError)` is missing.
ResolveUnguarded(range, raw) ==
    IF raw.type = "none" THEN Resolved(range.default)
    ELSE LET f == FloatOf(raw) IN
         IF f.ok THEN Resolved(PyMax(range.lo, PyMin(range.hi, f.value)))
         ELSE ResolveRaised

\* The body the three methods share: None gives the default, float(raw) is
\* clamped, ValueError and TypeError give the default.
Resolve(range, raw) ==
    IF raw.type = "none" THEN Resolved(range.default)
    ELSE LET f == FloatOf(raw) IN
         IF f.ok THEN Resolved(PyMax(range.lo, PyMin(range.hi, f.value)))
         ELSE Resolved(range.default)

SpeedRange == [lo |-> Finite(5, 10), hi |-> Finite(2, 1), default |-> Finite(1, 1)]
VolumeRange == [lo |-> Finite(1, 10), hi |-> Finite(2, 1), default |-> Finite(1, 1)]
PitchRange == [lo |-> Finite(-12, 1), hi |-> Finite(12, 1), default |-> Finite(0, 1)]

ResolveSpeed(raw) == Resolve(SpeedRange, raw)
ResolveVolume(raw) == Resolve(VolumeRange, raw)
ResolvePitch(raw) == Resolve(PitchRange, raw)

\* --- the raw values: None, the floats argparse's type=float can give
\* (hundredths up to MaxAbsHundredths, infinities, NaN), strings, and an
\* object that float() does not take
MaxAbsHundredths == 1300
MaxNumberLen == 4
NumberChars == {"1", "5", ".", "-", "x"}
Raw(type, float, str) == [type |-> type, float |-> float, str |-> str]
RawValues ==
    {Raw("none", NaN, <<>>), Raw("object", NaN, <<>>)}
    \cup {Raw("float", Finite(n, 100), <<>>) : n \in (-MaxAbsHundredths)..MaxAbsHundredths}
    \cup {Raw("float", v, <<>>) : v \in {PosInf, NegInf, NaN}}
    \cup {Raw("str", NaN, s) : s \in SeqsUpTo(NumberChars, MaxNumberLen)}

InitResolve ==
    \E fn \in {"_resolve_speed", "_resolve_volume", "_resolve_pitch"}, raw \in RawValues :
        InitCall([fn |-> fn, done |-> FALSE, raw |-> raw])

ResolveSpeedCall ==
    /\ call.fn = "_resolve_speed"
    /\ ~call.done
    /\ call' = [fn |-> call.fn, done |-> TRUE, raw |-> call.raw,
                result |-> ResolveSpeed(call.raw)]
    /\ UNCHANGED <<vars, parser_vars>>

ResolveVolumeCall ==
    /\ call.fn = "_resolve_volume"
    /\ ~call.done
    /\ call' = [fn |-> call.fn, done |-> TRUE, raw |-> call.raw,
                result |-> ResolveVolume(call.raw)]
    /\ UNCHANGED <<vars, parser_vars>>

ResolvePitchCall ==
    /\ call.fn = "_resolve_pitch"
    /\ ~call.done
    /\ call' = [fn |-> call.fn, done |-> TRUE, raw |-> call.raw,
                result |-> ResolvePitch(call.raw)]
    /\ UNCHANGED <<vars, parser_vars>>

NextResolve == ResolveSpeedCall \/ ResolveVolumeCall \/ ResolvePitchCall

SpecResolve == InitResolve /\ [][NextResolve]_all_vars

\* The range each method is to keep.
RangeOf(fn) ==
    CASE fn = "_resolve_speed" -> SpeedRange
      [] fn = "_resolve_volume" -> VolumeRange
      [] fn = "_resolve_pitch" -> PitchRange

\* The number a raw value stands for, if it is one: a float that is no NaN,
\* or a string that is a decimal numeral.
IsNumeral(s) ==
    \E sign \in {<<>>, <<"-">>}, w \in SeqsUpTo(Digits \cap NumberChars, MaxNumberLen),
       f \in SeqsUpTo(Digits \cap NumberChars, MaxNumberLen) :
        \/ w # <<>> /\ s = sign \o w
        \/ w \o f # <<>> /\ s = sign \o w \o <<".">> \o f
IsNumber(raw) ==
    \/ raw.type = "float" /\ raw.float.k # "nan"
    \/ raw.type = "str" /\ IsNumeral(raw.str)

\* C37: none of _resolve_speed, _resolve_volume and _resolve_pitch raises,
\* and each returns a value within its range ([0.5, 2.0], [0.1, 2.0],
\* [-12, 12]): a number below the range gives the lower bound, a number
\* above it the upper bound, a number within it is returned as it is; None
\* and a value that is no number (a string that float() rejects, an object)
\* give the default (1.0, 1.0, 0.0).
C37_ResolveClampsOrDefaults ==
    (call.fn \in {"_resolve_speed", "_resolve_volume", "_resolve_pitch"} /\ call.done) =>
        LET range == RangeOf(call.fn)
            raw == call.raw
            r == call.result
            x == FloatOf(raw).value
        IN  /\ ~r.raised
            /\ r.value.k = "finite"
            /\ ~FloatLess(r.value, range.lo)
            /\ ~FloatLess(range.hi, r.value)
            /\ IsNumber(raw) =>
                  /\ FloatLess(x, range.lo) => FloatEqual(r.value, range.lo)
                  /\ FloatLess(range.hi, x) => FloatEqual(r.value, range.hi)
                  /\ (~FloatLess(x, range.lo) /\ ~FloatLess(range.hi, x)) =>
                        FloatEqual(r.value, x)
            /\ (raw.type \in {"none", "object"} \/ (raw.type = "str" /\ ~IsNumeral(raw.str))) =>
                  FloatEqual(r.value, range.default)

\* C37 witness: the string '-15.' was given as pitch and came back as the
\* lower bound -12.
C37_Witness ==
    /\ call.fn = "_resolve_pitch"
    /\ call.done
    /\ call.raw = Raw("str", NaN, <<"-", "1", "5", ".">>)
    /\ call.result = Resolved(Finite(-12, 1))

====
